---- MODULE Spec2Model ----
(***************************************************************************)
(* Property proxies of include/attr/property.hpp (the CRTP + offsetof      *)
(* implementation, GCC/Clang branch) driven by the owner classes of        *)
(* test/property_test.cpp.                                                 *)
(*                                                                         *)
(* Memory is a map from addresses (in words) to values.  An owner object   *)
(* occupies Sizeof words from its base address; a proxy is an empty member *)
(* of its owner and has an address but no word of its own data.  Every     *)
(* proxy operation starts from the proxy's address, recovers the owner     *)
(* with GetOwner and calls the owner's getter / setter on that pointer.    *)
(*                                                                         *)
(* Expressions the compiler rejects (deleted functions, operators that a   *)
(* requires-clause removes, members a class template does not have) are    *)
(* modelled as operations with outcome "ill_formed" and no effect.         *)
(*                                                                         *)
(* The value box attr<T> of include/attr/attr.hpp is a second, independent *)
(* state machine (AttrSpec) over the variables box and did; the proxy      *)
(* state machine (Spec) leaves those two variables alone and AttrSpec      *)
(* leaves the others alone.                                                *)
(***************************************************************************)
EXTENDS Integers, Sequences, FiniteSets, TLC

VARIABLES
    cls,     \* class of the owner objects of this run (one test scenario)
    abi,     \* how the build lays out the empty proxy members
    layout,  \* the object layout of every class under that ABI
    objs,    \* base addresses of the live owner objects, in creation order
    mem,     \* memory: address -> value of the word stored there
    last,    \* the last operation the caller performed and what it observed
    ref,     \* the reference (auto& r = ++obj.prop) the caller holds, if any
    pc,      \* "run", "crashed" after undefined behaviour trapped, or "hung"
             \* in a call that never returns
    box,     \* the attr<T> boxes of the run: flag and storage of each
    did      \* the last operation the caller performed on a box

vars == <<cls, abi, layout, objs, mem, last, ref, pc, box, did>>

----------------------------------------------------------------------------
(* Bounds of the model *)

\* BasicOwner arr[ArrLen]: number of owners in the array scenario
ArrLen == 2
\* setter arguments of the unclamped properties stay within -MaxMag..MaxMag
MaxMag == 1
\* setter arguments of the clamped property stay within ClampLo-Slack..ClampHi+Slack
Slack == 100
\* obj.data[k] is followed for k in 0..MaxIndex
MaxIndex == 3

(* Program constants *)

\* ValidatedOwner::setValue clamps to [ClampLo, ClampHi]
ClampLo == 0
ClampHi == 100
\* width of int: a shift count outside 0..IntBits-1 is undefined
IntBits == 32

\* value of a word no live object owns (only a mis-resolved owner pointer reads it)
Junk == 0 - 77

----------------------------------------------------------------------------
(* Owner classes: the fixtures of test/property_test.cpp *)

Classes == {"BasicOwner", "ValidatedOwner", "Rectangle", "WriteOnlyOwner",
            "DerivedOwner", "StrictOwner", "VectorOwner"}

\* the direct base class of a class ("none" when it has none)
BaseOf(c) == IF c = "DerivedOwner" THEN "BasicOwner" ELSE "none"

\* the data members a class declares itself, in declaration order
OwnFields(c) ==
    CASE c = "BasicOwner"     -> <<"value_">>
      [] c = "ValidatedOwner" -> <<"value_">>
      [] c = "StrictOwner"    -> <<"value_">>
      [] c = "Rectangle"      -> <<"width_", "height_">>
      [] c = "WriteOnlyOwner" -> <<"secret_", "secretSet_">>
      [] c = "DerivedOwner"   -> <<"extra_">>
      [] c = "VectorOwner"    -> <<"data_">>
      [] OTHER                -> <<>>

\* the property proxies a class declares itself, in declaration order
OwnProps(c) ==
    CASE c = "BasicOwner"     -> <<"value">>
      [] c = "ValidatedOwner" -> <<"value">>
      [] c = "StrictOwner"    -> <<"value">>
      [] c = "Rectangle"      -> <<"width", "height", "area", "perimeter">>
      [] c = "WriteOnlyOwner" -> <<"secret">>
      [] c = "DerivedOwner"   -> <<"extra">>
      [] c = "VectorOwner"    -> <<"data">>
      [] OTHER                -> <<>>

Range(s) == {s[i] : i \in 1..Len(s)}

IndexOf(s, x) == CHOOSE i \in 1..Len(s) : s[i] = x

\* all properties reachable through an object of class c (own and inherited)
PropsOf(c) ==
    Range(OwnProps(c)) \cup (IF BaseOf(c) = "none" THEN {} ELSE Range(OwnProps(BaseOf(c))))

\* all data members of an object of class c, the base class subobject first
AllFields(c) == (IF BaseOf(c) = "none" THEN <<>> ELSE OwnFields(BaseOf(c))) \o OwnFields(c)

\* the class that declares property p of an object of class c: the OwnerType
\* the property macro was invoked with
DeclClass(c, p) == IF p \in Range(OwnProps(c)) THEN c ELSE BaseOf(c)

\* TOUKA_PROPERTY / TOUKA_PROPERTY_RO / TOUKA_PROPERTY_WO
Access(c, p) ==
    CASE c = "Rectangle" /\ p \in {"area", "perimeter"} -> "RO"
      [] c = "WriteOnlyOwner"                           -> "WO"
      [] OTHER                                          -> "RW"

\* the PropType argument of the property macro
TypeOf(c, p) ==
    CASE c = "Rectangle"      -> "double"
      [] c = "WriteOnlyOwner" -> "string"
      [] c = "VectorOwner"    -> "vector"
      [] OTHER                -> "int"

----------------------------------------------------------------------------
(* Object layout *)

\* "overlap": [[no_unique_address]] is honoured, every empty proxy sits at
\*            offset 0 of the class that declares it and takes no room;
\* "distinct": the attribute is ignored, every proxy takes a word of its
\*            own after the data members of its class.
ABIs == {"overlap", "distinct"}

\* the words the members a class declares itself take
SizeofOwn(a, c) == Len(OwnFields(c)) + (IF a = "distinct" THEN Len(OwnProps(c)) ELSE 0)

\* The layout a build gives every class: sizeof in words, the offset of
\* each data member and offsetof(OwnerType, PropName) of each proxy member.
\* A base class subobject comes first, at offset 0.
LayoutOf(a) ==
    [c \in Classes |->
       [size  |-> (IF BaseOf(c) = "none" THEN 0 ELSE SizeofOwn(a, BaseOf(c))) + SizeofOwn(a, c),
        field |-> [f \in Range(AllFields(c)) |->
                     IF f \in Range(OwnFields(c))
                     THEN (IF BaseOf(c) = "none" THEN 0 ELSE SizeofOwn(a, BaseOf(c)))
                              + IndexOf(OwnFields(c), f) - 1
                     ELSE IndexOf(OwnFields(BaseOf(c)), f) - 1],
        proxy |-> [p \in Range(OwnProps(c)) |->
                     IF a = "overlap"
                     THEN 0
                     ELSE (IF BaseOf(c) = "none" THEN 0 ELSE SizeofOwn(a, BaseOf(c)))
                              + Len(OwnFields(c)) + IndexOf(OwnProps(c), p) - 1]]]

\* sizeof(c)
Sizeof(c) == layout[c].size

\* offset of data member f within an object of class c
FieldOffset(c, f) == layout[c].field[f]

\* offsetof(OwnerType, PropName), for a property c declares itself
Offsetof(c, p) == layout[c].proxy[p]

\* address of the proxy member p of the object at base address b: what the
\* member access obj.p denotes
ProxyAddr(c, b, p) == b + Offsetof(DeclClass(c, p), p)

\* reads and writes of a word; an address outside every live object is a
\* wild access (it happens only if an owner pointer is wrong)
Load(m, a) == IF a \in DOMAIN m THEN m[a] ELSE Junk

Store(m, a, v) == IF a \in DOMAIN m THEN [m EXCEPT ![a] = v] ELSE m

----------------------------------------------------------------------------
(* Member functions of the owner classes.  this is the owner pointer.      *)
(* A getter returns the value; a setter returns the memory it leaves and   *)
(* the exception it raised (NoError when it returned normally).            *)

NoError == [kind |-> "none", v |-> 0]

Returned(m) == [mem |-> m, err |-> NoError]

Raised(m, e) == [mem |-> m, err |-> e]

BasicOwner_getValue(m, this) == Load(m, this + FieldOffset("BasicOwner", "value_"))

BasicOwner_setValue(m, this, v) ==
    Returned(Store(m, this + FieldOffset("BasicOwner", "value_"), v))

ValidatedOwner_getValue(m, this) == Load(m, this + FieldOffset("ValidatedOwner", "value_"))

\* if (v < 0) v = 0;  if (v > 100) v = 100;
Clamp(v) == IF v < ClampLo THEN ClampLo ELSE IF v > ClampHi THEN ClampHi ELSE v

ValidatedOwner_setValue(m, this, v) ==
    Returned(Store(m, this + FieldOffset("ValidatedOwner", "value_"), Clamp(v)))

Rectangle_getWidth(m, this) == Load(m, this + FieldOffset("Rectangle", "width_"))

Rectangle_setWidth(m, this, v) ==
    Returned(Store(m, this + FieldOffset("Rectangle", "width_"), IF v > 0 THEN v ELSE 0))

Rectangle_getHeight(m, this) == Load(m, this + FieldOffset("Rectangle", "height_"))

Rectangle_setHeight(m, this, v) ==
    Returned(Store(m, this + FieldOffset("Rectangle", "height_"), IF v > 0 THEN v ELSE 0))

Rectangle_getArea(m, this) ==
    Load(m, this + FieldOffset("Rectangle", "width_"))
        * Load(m, this + FieldOffset("Rectangle", "height_"))

Rectangle_getPerimeter(m, this) ==
    2 * (Load(m, this + FieldOffset("Rectangle", "width_"))
            + Load(m, this + FieldOffset("Rectangle", "height_")))

WriteOnlyOwner_setSecret(m, this, v) ==
    Returned(Store(Store(m, this + FieldOffset("WriteOnlyOwner", "secret_"), v),
                   this + FieldOffset("WriteOnlyOwner", "secretSet_"), TRUE))

WriteOnlyOwner_isSecretSet(m, this) ==
    Load(m, this + FieldOffset("WriteOnlyOwner", "secretSet_"))

DerivedOwner_getExtra(m, this) == Load(m, this + FieldOffset("DerivedOwner", "extra_"))

\* fault: a setExtra that stores into the inherited value_ as well
DerivedOwner_setExtra_and_value(m, this, v) ==
    Returned(Store(Store(m, this + FieldOffset("DerivedOwner", "extra_"), v),
                   this + FieldOffset("DerivedOwner", "value_"), v))

DerivedOwner_setExtra(m, this, v) ==
    Returned(Store(m, this + FieldOffset("DerivedOwner", "extra_"), v))

\* const std::vector<int>& getData() const: the vector as a sequence
VectorOwner_getData(m, this) == Load(m, this + FieldOffset("VectorOwner", "data_"))

VectorOwner_setData(m, this, v) ==
    Returned(Store(m, this + FieldOffset("VectorOwner", "data_"), v))

\* An owner whose setter enforces an invariant by rejecting negative values
\* with an exception that names the rejected value; the stored value is
\* left as it was.
StrictOwner_getValue(m, this) == Load(m, this + FieldOffset("StrictOwner", "value_"))

StrictOwner_setValue(m, this, v) ==
    IF v < 0
    THEN Raised(m, [kind |-> "invalid_argument", v |-> v])
    ELSE Returned(Store(m, this + FieldOffset("StrictOwner", "value_"), v))

\* the data member the setter bound to property p of class c assigns
Written(c, p) ==
    CASE c = "Rectangle"      /\ p = "width"  -> "width_"
      [] c = "Rectangle"      /\ p = "height" -> "height_"
      [] c = "WriteOnlyOwner" /\ p = "secret" -> "secret_"
      [] c = "DerivedOwner"   /\ p = "extra"  -> "extra_"
      [] c = "VectorOwner"    /\ p = "data"   -> "data_"
      [] p = "value"                          -> "value_"
      [] OTHER                                -> "none"

\* the data members the getter bound to property q of class c reads
ReadBy(c, q) ==
    CASE c = "Rectangle"    /\ q = "width"                 -> {"width_"}
      [] c = "Rectangle"    /\ q = "height"                -> {"height_"}
      [] c = "Rectangle"    /\ q \in {"area", "perimeter"} -> {"width_", "height_"}
      [] c = "DerivedOwner" /\ q = "extra"                 -> {"extra_"}
      [] c = "VectorOwner"  /\ q = "data"                  -> {"data_"}
      [] q = "value"                                       -> {"value_"}
      [] OTHER                                             -> {}

\* (owner()->*Getter)(): the getter the property macro bound to property p
\* of class c, called on owner pointer o
CallGetter(c, p, m, o) ==
    CASE c = "BasicOwner"     /\ p = "value"     -> BasicOwner_getValue(m, o)
      [] c = "ValidatedOwner" /\ p = "value"     -> ValidatedOwner_getValue(m, o)
      [] c = "StrictOwner"    /\ p = "value"     -> StrictOwner_getValue(m, o)
      [] c = "Rectangle"      /\ p = "width"     -> Rectangle_getWidth(m, o)
      [] c = "Rectangle"      /\ p = "height"    -> Rectangle_getHeight(m, o)
      [] c = "Rectangle"      /\ p = "area"      -> Rectangle_getArea(m, o)
      [] c = "Rectangle"      /\ p = "perimeter" -> Rectangle_getPerimeter(m, o)
      [] c = "DerivedOwner"   /\ p = "extra"     -> DerivedOwner_getExtra(m, o)
      [] c = "VectorOwner"    /\ p = "data"      -> VectorOwner_getData(m, o)
      [] OTHER                                   -> Junk

\* (owner()->*Setter)(v): the setter the property macro bound to property p
CallSetter(c, p, m, o, v) ==
    CASE c = "BasicOwner"     /\ p = "value"  -> BasicOwner_setValue(m, o, v)
      [] c = "ValidatedOwner" /\ p = "value"  -> ValidatedOwner_setValue(m, o, v)
      [] c = "StrictOwner"    /\ p = "value"  -> StrictOwner_setValue(m, o, v)
      [] c = "Rectangle"      /\ p = "width"  -> Rectangle_setWidth(m, o, v)
      [] c = "Rectangle"      /\ p = "height" -> Rectangle_setHeight(m, o, v)
      [] c = "WriteOnlyOwner" /\ p = "secret" -> WriteOnlyOwner_setSecret(m, o, v)
      [] c = "DerivedOwner"   /\ p = "extra"  -> DerivedOwner_setExtra(m, o, v)
      [] c = "VectorOwner"    /\ p = "data"   -> VectorOwner_setData(m, o, v)
      [] OTHER                                -> Returned(m)

----------------------------------------------------------------------------
(* The built-in operators of the value types, as C++ computes them *)

Abs(x) == IF x < 0 THEN 0 - x ELSE x

Sign(x) == IF x < 0 THEN 0 - 1 ELSE IF x > 0 THEN 1 ELSE 0

\* int division truncates toward zero; the remainder takes the sign of a
CDiv(a, b) == Sign(a) * Sign(b) * (Abs(a) \div Abs(b))

CMod(a, b) == a - b * CDiv(a, b)

\* two's complement bitwise operators: bit k of the result from bit k of the
\* operands, the sign extending to the left
RECURSIVE BitAnd(_, _)
BitAnd(a, b) ==
    IF a = 0 \/ b = 0 THEN 0
    ELSE IF a = 0 - 1 THEN b
    ELSE IF b = 0 - 1 THEN a
    ELSE 2 * BitAnd(a \div 2, b \div 2) + (a % 2) * (b % 2)

RECURSIVE BitOr(_, _)
BitOr(a, b) ==
    IF a = 0 THEN b
    ELSE IF b = 0 THEN a
    ELSE IF a = 0 - 1 \/ b = 0 - 1 THEN 0 - 1
    ELSE 2 * BitOr(a \div 2, b \div 2) + (IF a % 2 = 1 \/ b % 2 = 1 THEN 1 ELSE 0)

RECURSIVE BitXor(_, _)
BitXor(a, b) ==
    IF a = 0 THEN b
    ELSE IF b = 0 THEN a
    ELSE IF a = 0 - 1 THEN 0 - b - 1
    ELSE IF b = 0 - 1 THEN 0 - a - 1
    ELSE 2 * BitXor(a \div 2, b \div 2) + (IF a % 2 = b % 2 THEN 0 ELSE 1)

RECURSIVE Pow2(_)
Pow2(n) == IF n = 0 THEN 1 ELSE 2 * Pow2(n - 1)

\* a << n and a >> n for a count in 0..IntBits-1 (>> is an arithmetic shift)
ShiftLeft(a, n) == a * Pow2(n)

ShiftRight(a, n) == a \div Pow2(n)

Val(x) == [kind |-> "val", v |-> x]

Trap == [kind |-> "trap", v |-> 0]

\* a op d on int: the set of outcomes the build can produce.  Division and
\* remainder by zero and a shift count outside 0..IntBits-1 are undefined:
\* the hardware traps, or yields the value its divide / shift instruction
\* leaves (0 or the dividend; the count taken modulo IntBits, or all bits
\* shifted out).  Sums and products never leave the range of int here.
IntOp(op, a, d) ==
    CASE op = "+"  -> {Val(a + d)}
      [] op = "-"  -> {Val(a - d)}
      [] op = "*"  -> {Val(a * d)}
      [] op = "/"  -> IF d = 0 THEN {Trap, Val(0)} ELSE {Val(CDiv(a, d))}
      [] op = "%"  -> IF d = 0 THEN {Trap, Val(a)} ELSE {Val(CMod(a, d))}
      [] op = "&"  -> {Val(BitAnd(a, d))}
      [] op = "|"  -> {Val(BitOr(a, d))}
      [] op = "^"  -> {Val(BitXor(a, d))}
      [] op = "<<" -> IF d \in 0..(IntBits - 1) THEN {Val(ShiftLeft(a, d))}
                      ELSE {Val(0), Val(a)}
      [] op = ">>" -> IF d \in 0..(IntBits - 1) THEN {Val(ShiftRight(a, d))}
                      ELSE {Val(IF a < 0 THEN 0 - 1 ELSE 0), Val(a)}
      [] OTHER     -> {}

\* a op d on double, for the integral values the model holds; a quotient
\* that is not integral (or is infinite) lies outside the modelled values
DoubleOp(op, a, d) ==
    CASE op = "+" -> {Val(a + d)}
      [] op = "-" -> {Val(a - d)}
      [] op = "*" -> {Val(a * d)}
      [] op = "/" -> IF d # 0 /\ CMod(a, d) = 0 THEN {Val(CDiv(a, d))} ELSE {}
      [] OTHER    -> {}

BinaryOp(t, op, a, d) ==
    CASE t = "int"    -> IntOp(op, a, d)
      [] t = "double" -> DoubleOp(op, a, d)
      [] OTHER        -> {}

\* a <=> b as -1 (less), 0 (equal), 1 (greater)
ThreeWay(a, b) == IF a < b THEN 0 - 1 ELSE IF a > b THEN 1 ELSE 0

\* a <=> b of two std::vector<int>: the first differing element decides,
\* a proper prefix is less
RECURSIVE LexCompare(_, _)
LexCompare(a, b) ==
    IF a = <<>> \/ b = <<>>
    THEN ThreeWay(Len(a), Len(b))
    ELSE IF Head(a) # Head(b)
         THEN ThreeWay(Head(a), Head(b))
         ELSE LexCompare(Tail(a), Tail(b))

\* a <=> b for two values of type t
Order(t, a, b) == IF t = "vector" THEN LexCompare(a, b) ELSE ThreeWay(a, b)

----------------------------------------------------------------------------
(* The proxy class templates.  c is OwnerType, p is PropName, this is the   *)
(* address of the proxy, m the memory the operation starts from.  An        *)
(* operation yields the memory it leaves, the getter / setter calls it      *)
(* made in order, what it returned and how it ended:                        *)
(*   "ok"          returned normally                                        *)
(*   "throw"       left by the exception err                                *)
(*   "trap"        undefined behaviour stopped the program                  *)
(*   "ill_formed"  the expression does not compile                          *)

Void == [kind |-> "void", v |-> 0]

Value(x) == [kind |-> "value", v |-> x]

\* a Derived& : the address of the proxy the reference denotes
Ref(a) == [kind |-> "ref", v |-> a]

GetCall(o, r) == [fn |-> "get", owner |-> o, v |-> r]

SetCall(o, v) == [fn |-> "set", owner |-> o, v |-> v]

Result(m, calls, ret, err) ==
    [mem |-> m, calls |-> calls, ret |-> ret, err |-> err,
     outcome |-> IF err = NoError THEN "ok" ELSE "throw"]

Trapped(m, calls) ==
    [mem |-> m, calls |-> calls, ret |-> Void, err |-> NoError, outcome |-> "trap"]

IllFormed(m) ==
    [mem |-> m, calls |-> <<>>, ret |-> Void, err |-> NoError, outcome |-> "ill_formed"]

\* fault: GetOwner that takes the proxy's own address for the owner's
GetOwner_no_offset(c, p, this) == this

\* PropName##_property_t::GetOwner: the proxy's address minus the offset of
\* the proxy member within OwnerType
GetOwner(c, p, this) == this - Offsetof(c, p)

\* (owner()->*Getter)() on the owner pointer o: the call and its result
Getter(c, p, m, o) == GetCall(o, CallGetter(c, p, m, o))

\* (owner()->*Setter)(v) on the owner pointer o: the call and what it did
Setter(c, p, m, o, v) == [call |-> SetCall(o, v), done |-> CallSetter(c, p, m, o, v)]

\* return of a const member after its getter call g: the value x
Reads(m, g, x) == Result(m, <<g>>, Value(x), NoError)

\* a void member after its setter call s
Sets(s) == Result(s.done.mem, <<s.call>>, Void, s.done.err)

\* return *self(); after the setter call s (not reached if the setter threw)
SetsAndReturnsSelf(this, s) ==
    Result(s.done.mem, <<s.call>>, IF s.done.err = NoError THEN Ref(this) ELSE Void,
           s.done.err)

\* ---- PropertyBase (read-write) ----

\* invoke_getter(): the getter's result, and the call it made
PropertyBase_invoke_getter(c, p, m, this) == Getter(c, p, m, GetOwner(c, p, this))

\* the value a getter call returned, handed on by value
Returns(m, g) == Reads(m, g, g.v)

\* fault: a conversion that calls the getter twice
PropertyBase_conv_reading_twice(c, p, m, this) ==
    Result(m, <<Getter(c, p, m, GetOwner(c, p, this)), Getter(c, p, m, GetOwner(c, p, this))>>,
           Value(Getter(c, p, m, GetOwner(c, p, this)).v), NoError)

\* operator T() const
PropertyBase_conv(c, p, m, this) == Returns(m, Getter(c, p, m, GetOwner(c, p, this)))

\* decltype(auto) get() const
PropertyBase_get(c, p, m, this) == Returns(m, Getter(c, p, m, GetOwner(c, p, this)))

\* T get_value() const
PropertyBase_get_value(c, p, m, this) == Returns(m, Getter(c, p, m, GetOwner(c, p, this)))

\* fault: operator= that returns *self() without calling the setter
PropertyBase_assign_dropped(c, p, m, this, v) == Result(m, <<>>, Ref(this), NoError)

\* Derived& operator=(const T&) and operator=(T&&): the setter runs, then
\* *self() is returned; an exception of the setter leaves the operator
PropertyBase_assign(c, p, m, this, v) ==
    SetsAndReturnsSelf(this, Setter(c, p, m, GetOwner(c, p, this), v))

\* fault: set() that catches what the setter throws and returns normally
PropertyBase_set_swallowing(c, p, m, this, v) ==
    Result(CallSetter(c, p, m, GetOwner(c, p, this), v).mem,
           <<SetCall(GetOwner(c, p, this), v)>>, Void, NoError)

\* fault: a set() that clamps the value before it calls the setter
PropertyBase_set_validating(c, p, m, this, v) ==
    Sets(Setter(c, p, m, GetOwner(c, p, this), Clamp(v)))

\* void set(const T&) and set(T&&)
PropertyBase_set(c, p, m, this, v) == Sets(Setter(c, p, m, GetOwner(c, p, this), v))

\* the calls made before, then those of the set() that ended as s, then
\* return *self();
ThenReturnsSelf(this, before, s) ==
    Result(s.mem, before \o s.calls, IF s.err = NoError THEN Ref(this) ELSE Void, s.err)

\* set(x); return *self();  after the calls made so far
PropertyBase_set_and_return_self(c, p, m, this, x, before) ==
    ThenReturnsSelf(this, before, PropertyBase_set(c, p, m, this, x))

\* fault: the operator is applied to a copy that is never written back
PropertyBase_compound_after_unwritten(c, p, m, this, op, d, g) ==
    { IF e.kind = "trap" THEN Trapped(m, <<g>>) ELSE Result(m, <<g>>, Ref(this), NoError)
      : e \in BinaryOp(TypeOf(c, p), op, g.v, d) }

\* set(g op d); return *self();  after the getter call g: one result for
\* each outcome of the built-in operator
PropertyBase_compound_after(c, p, m, this, op, d, g) ==
    { IF e.kind = "trap"
      THEN Trapped(m, <<g>>)
      ELSE PropertyBase_set_and_return_self(c, p, m, this, e.v, <<g>>)
      : e \in BinaryOp(TypeOf(c, p), op, g.v, d) }

\* fault: set(v op invoke_getter()), the operands the wrong way round
PropertyBase_compound_swapped(c, p, m, this, op, d) ==
    { IF e.kind = "trap"
      THEN Trapped(m, <<PropertyBase_invoke_getter(c, p, m, this)>>)
      ELSE PropertyBase_set_and_return_self(c, p, m, this, e.v,
                                            <<PropertyBase_invoke_getter(c, p, m, this)>>)
      : e \in BinaryOp(TypeOf(c, p), op, d, PropertyBase_invoke_getter(c, p, m, this).v) }

\* operator+= ... operator>>= : set(invoke_getter() op v); return *self();
PropertyBase_compound(c, p, m, this, op, d) ==
    PropertyBase_compound_after(c, p, m, this, op, d,
                                PropertyBase_invoke_getter(c, p, m, this))

\* ++val (step 1) or --val (step -1); set(std::move(val)); return *self();
\* after T val = invoke_getter() made the call g
PropertyBase_step_after(c, p, m, this, step, g) ==
    PropertyBase_set_and_return_self(c, p, m, this, g.v + step, <<g>>)

\* fault: operator++() that returns the incremented copy instead of *self()
PropertyBase_preinc_by_value(c, p, m, this) ==
    [PropertyBase_step_after(c, p, m, this, 1, PropertyBase_invoke_getter(c, p, m, this))
       EXCEPT !.ret = Value(PropertyBase_invoke_getter(c, p, m, this).v + 1)]

\* Derived& operator++(): T val = invoke_getter(); ++val; set(std::move(val));
PropertyBase_preinc(c, p, m, this) ==
    PropertyBase_step_after(c, p, m, this, 1, PropertyBase_invoke_getter(c, p, m, this))

\* Derived& operator--()
PropertyBase_predec(c, p, m, this) ==
    PropertyBase_step_after(c, p, m, this, 0 - 1, PropertyBase_invoke_getter(c, p, m, this))

\* return old;  after the set() that ended as s (not reached if it threw)
ThenReturnsOld(old, before, s) ==
    Result(s.mem, before \o s.calls, IF s.err = NoError THEN Value(old) ELSE Void, s.err)

\* T val = old; ++val (step 1) or --val (step -1); set(std::move(val));
\* return old;  after T old = invoke_getter() made the call g
PropertyBase_poststep_after(c, p, m, this, step, g) ==
    ThenReturnsOld(g.v, <<g>>, PropertyBase_set(c, p, m, this, g.v + step))

\* fault: operator++(int) that returns the incremented copy
PropertyBase_postinc_returning_new(c, p, m, this) ==
    ThenReturnsOld(PropertyBase_invoke_getter(c, p, m, this).v + 1,
                   <<PropertyBase_invoke_getter(c, p, m, this)>>,
                   PropertyBase_set(c, p, m, this,
                                    PropertyBase_invoke_getter(c, p, m, this).v + 1))

\* T operator++(int)
PropertyBase_postinc(c, p, m, this) ==
    PropertyBase_poststep_after(c, p, m, this, 1, PropertyBase_invoke_getter(c, p, m, this))

\* T operator--(int)
PropertyBase_postdec(c, p, m, this) ==
    PropertyBase_poststep_after(c, p, m, this, 0 - 1,
                                PropertyBase_invoke_getter(c, p, m, this))

\* invoke_getter() == v, after the getter call g
EqualTo(m, g, v) == Reads(m, g, g.v = v)

\* invoke_getter() <=> v, after the getter call g
ComparedTo(m, g, v) == Reads(m, g, ThreeWay(g.v, v))

\* bool operator==(const T&) const
PropertyBase_eq(c, p, m, this, v) ==
    EqualTo(m, PropertyBase_invoke_getter(c, p, m, this), v)

\* fault: other <=> invoke_getter(), the operands the wrong way round
PropertyBase_cmp_reversed(c, p, m, this, v) ==
    Reads(m, PropertyBase_invoke_getter(c, p, m, this),
          Order(TypeOf(c, p), v, PropertyBase_invoke_getter(c, p, m, this).v))

\* auto operator<=>(const T&) const
PropertyBase_cmp(c, p, m, this, v) ==
    Reads(m, PropertyBase_invoke_getter(c, p, m, this),
          Order(TypeOf(c, p), PropertyBase_invoke_getter(c, p, m, this).v, v))

\* fault: a subscript that hands out the container's first element
PropertyBase_subscript_first(c, p, m, this, k) ==
    {Reads(m, PropertyBase_invoke_getter(c, p, m, this),
           IF PropertyBase_invoke_getter(c, p, m, this).v = <<>>
           THEN Junk ELSE Head(PropertyBase_invoke_getter(c, p, m, this).v))}

\* auto operator[](Index&& i) const: return invoke_getter()[i]; the element
\* is copied out of the getter's result.  An index past the end is
\* undefined behaviour of the container: the program stops or reads a word
\* that is no element
PropertyBase_subscript(c, p, m, this, k) ==
    IF k < Len(PropertyBase_invoke_getter(c, p, m, this).v)
    THEN {Reads(m, PropertyBase_invoke_getter(c, p, m, this),
                PropertyBase_invoke_getter(c, p, m, this).v[k + 1])}
    ELSE {Trapped(m, <<PropertyBase_invoke_getter(c, p, m, this)>>),
          Reads(m, PropertyBase_invoke_getter(c, p, m, this), Junk)}

\* ---- PropertyBaseReadOnly ----

PropertyBaseReadOnly_invoke_getter(c, p, m, this) == Getter(c, p, m, GetOwner(c, p, this))

\* operator T() const
PropertyBaseReadOnly_conv(c, p, m, this) ==
    Returns(m, Getter(c, p, m, GetOwner(c, p, this)))

\* fault: get() that returns the word at the proxy's own address, as if the
\* proxy kept a copy of the value
PropertyBaseReadOnly_get_cached(c, p, m, this) ==
    Reads(m, Getter(c, p, m, GetOwner(c, p, this)), Load(m, this))

\* decltype(auto) get() const
PropertyBaseReadOnly_get(c, p, m, this) ==
    Returns(m, Getter(c, p, m, GetOwner(c, p, this)))

\* fault: get_value() that keeps the value it read in the word at the
\* proxy's address
PropertyBaseReadOnly_get_value_caching(c, p, m, this) ==
    Result(Store(m, this, CallGetter(c, p, m, GetOwner(c, p, this))),
           <<Getter(c, p, m, GetOwner(c, p, this))>>,
           Value(CallGetter(c, p, m, GetOwner(c, p, this))), NoError)

\* T get_value() const
PropertyBaseReadOnly_get_value(c, p, m, this) ==
    Returns(m, Getter(c, p, m, GetOwner(c, p, this)))

\* bool operator==(const T&) const
PropertyBaseReadOnly_eq(c, p, m, this, v) ==
    EqualTo(m, PropertyBaseReadOnly_invoke_getter(c, p, m, this), v)

\* auto operator<=>(const T&) const
PropertyBaseReadOnly_cmp(c, p, m, this, v) ==
    ComparedTo(m, PropertyBaseReadOnly_invoke_getter(c, p, m, this), v)

\* ---- PropertyBaseWriteOnly ----

\* fault: operator= that hands back the value it replaced
PropertyBaseWriteOnly_assign_exchanging(c, p, m, this, v) ==
    Result(CallSetter(c, p, m, GetOwner(c, p, this), v).mem,
           <<SetCall(GetOwner(c, p, this), v)>>,
           Value(Load(m, GetOwner(c, p, this))), NoError)

\* Derived& operator=(const T&) and operator=(T&&)
PropertyBaseWriteOnly_assign(c, p, m, this, v) ==
    SetsAndReturnsSelf(this, Setter(c, p, m, GetOwner(c, p, this), v))

\* void set(const T&) and set(T&&)
PropertyBaseWriteOnly_set(c, p, m, this, v) ==
    Sets(Setter(c, p, m, GetOwner(c, p, this), v))

----------------------------------------------------------------------------
(* Which operations each proxy template has for a value type *)

CompoundOps == {"+", "-", "*", "/", "%", "&", "|", "^", "<<", ">>"}

ReadOps == {"conv", "get", "get_value", "eq", "cmp", "arrow", "deref", "subscript"}

WriteOps == {"assign", "set", "preinc", "predec", "postinc", "postdec"} \cup CompoundOps

\* the concepts Addable ... RightShiftable: does a op b compile for T
Supports(t, op) ==
    CASE t = "int"    -> op \in CompoundOps
      [] t = "double" -> op \in {"+", "-", "*", "/"}
      [] t = "string" -> op = "+"
      [] OTHER        -> FALSE

\* the concepts Incrementable and Decrementable
Incrementable(t) == t \in {"int", "double"}

Decrementable(t) == t \in {"int", "double"}

\* the concepts Dereferenceable, HasArrowOperator and Subscriptable
PointerLikeOps(t) == IF t \in {"string", "vector"} THEN {"subscript"} ELSE {}

\* the public members of PropertyBase<..., T, ...>
PropertyBase_surface(t) ==
    {"conv", "get", "get_value", "assign", "set", "eq", "cmp"}
        \cup {op \in CompoundOps : Supports(t, op)}
        \cup (IF Incrementable(t) THEN {"preinc", "postinc"} ELSE {})
        \cup (IF Decrementable(t) THEN {"predec", "postdec"} ELSE {})
        \cup PointerLikeOps(t)

\* the public members of PropertyBaseReadOnly<..., T, ...>
PropertyBaseReadOnly_surface(t) ==
    {"conv", "get", "get_value", "eq", "cmp"} \cup PointerLikeOps(t)

\* the public members of PropertyBaseWriteOnly<..., T, ...>
PropertyBaseWriteOnly_surface(t) == {"assign", "set"}

Surface(acc, t) ==
    CASE acc = "RW" -> PropertyBase_surface(t)
      [] acc = "RO" -> PropertyBaseReadOnly_surface(t)
      [] acc = "WO" -> PropertyBaseWriteOnly_surface(t)
      [] OTHER      -> {}

\* the member of the proxy template of access kind acc that the expression
\* obj.p <op> v  names
Member(acc, c, p, m, this, op, v) ==
    CASE acc = "RW" /\ op = "conv"       -> {PropertyBase_conv(c, p, m, this)}
      [] acc = "RW" /\ op = "get"        -> {PropertyBase_get(c, p, m, this)}
      [] acc = "RW" /\ op = "get_value"  -> {PropertyBase_get_value(c, p, m, this)}
      [] acc = "RW" /\ op = "eq"         -> {PropertyBase_eq(c, p, m, this, v)}
      [] acc = "RW" /\ op = "cmp"        -> {PropertyBase_cmp(c, p, m, this, v)}
      [] acc = "RW" /\ op = "assign"     -> {PropertyBase_assign(c, p, m, this, v)}
      [] acc = "RW" /\ op = "set"        -> {PropertyBase_set(c, p, m, this, v)}
      [] acc = "RW" /\ op = "preinc"     -> {PropertyBase_preinc(c, p, m, this)}
      [] acc = "RW" /\ op = "predec"     -> {PropertyBase_predec(c, p, m, this)}
      [] acc = "RW" /\ op = "postinc"    -> {PropertyBase_postinc(c, p, m, this)}
      [] acc = "RW" /\ op = "postdec"    -> {PropertyBase_postdec(c, p, m, this)}
      [] acc = "RW" /\ op = "subscript"  -> PropertyBase_subscript(c, p, m, this, v)
      [] acc = "RW" /\ op \in CompoundOps -> PropertyBase_compound(c, p, m, this, op, v)
      [] acc = "RO" /\ op = "conv"       -> {PropertyBaseReadOnly_conv(c, p, m, this)}
      [] acc = "RO" /\ op = "get"        -> {PropertyBaseReadOnly_get(c, p, m, this)}
      [] acc = "RO" /\ op = "get_value"  -> {PropertyBaseReadOnly_get_value(c, p, m, this)}
      [] acc = "RO" /\ op = "eq"         -> {PropertyBaseReadOnly_eq(c, p, m, this, v)}
      [] acc = "RO" /\ op = "cmp"        -> {PropertyBaseReadOnly_cmp(c, p, m, this, v)}
      [] acc = "WO" /\ op = "assign"     -> {PropertyBaseWriteOnly_assign(c, p, m, this, v)}
      [] acc = "WO" /\ op = "set"        -> {PropertyBaseWriteOnly_set(c, p, m, this, v)}
      [] OTHER                           -> {IllFormed(m)}

\* the expression  obj.p <op> v  on the proxy at address this: overload
\* resolution picks the member of the proxy's class template, or finds none
Invoke(c, p, m, this, op, v) ==
    IF op \in Surface(Access(c, p), TypeOf(c, p))
    THEN Member(Access(c, p), c, p, m, this, op, v)
    ELSE {IllFormed(m)}

\* PropertyBase(const PropertyBase&) = delete, and likewise in the read-only
\* and write-only templates: no proxy type has a copy constructor
ProxyCopyConstructible(acc) == FALSE

\* the implicit copy constructor of an owner class copies member by member,
\* so it exists only if every member has one (no fixture declares its own)
OwnerCopyConstructible(c) ==
    \A p \in PropsOf(c) : ProxyCopyConstructible(Access(DeclClass(c, p), p))

----------------------------------------------------------------------------
(* Inputs of the model *)

IntValues == {0 - 1, 0, 1, 95, 200}

Operands == {0 - 1, 0, 2, 50}

Secrets == {"hunter2", "password123"}

\* the vectors test cases assign
Vectors == {<<>>, <<1, 2, 3>>, <<3, 2>>}

ValuesOf(t) == IF t = "string" THEN Secrets ELSE IF t = "vector" THEN Vectors ELSE IntValues

OperandsOf(t) == IF t = "string" THEN Secrets ELSE Operands

\* the setter arguments the model follows
ArgInRange(c, p, x) ==
    CASE TypeOf(c, p) \in {"string", "vector"} -> TRUE
      [] c = "ValidatedOwner"    -> ClampLo - Slack <= x /\ x <= ClampHi + Slack
      [] OTHER                   -> 0 - MaxMag <= x /\ x <= MaxMag

CallsInRange(c, p, calls) ==
    \A k \in 1..Len(calls) : calls[k].fn = "set" => ArgInRange(c, p, calls[k].v)

\* how many owner objects a scenario starts with: BasicOwner arr[ArrLen] and
\* ArrLen holders of secrets, one object of every other class
CountOf(c) == IF c \in {"BasicOwner", "WriteOnlyOwner"} THEN ArrLen ELSE 1

----------------------------------------------------------------------------
(* The value box attr<T> of include/attr/attr.hpp.  A box is its engaged    *)
(* flag and its storage; of the storage the model keeps whether a T object  *)
(* is constructed in it (live) and the value it was last given.  T is a     *)
(* class type with an int payload, a destructor that is counted, and a copy *)
(* constructor / copy assignment that may throw, like the instrumented      *)
(* types of test/attr_test.cpp; its move operations do not throw and leave  *)
(* the source's payload as it is.                                           *)
(*                                                                          *)
(* An operation on boxes h yields the boxes it leaves, the number of times  *)
(* it ran T's destructor on a box's storage (temporaries are not counted),  *)
(* what it returned, the exception that left it ("T" for one thrown by T,   *)
(* "bad_attr_access"), and whether it used storage that holds no live T,    *)
(* which is undefined behaviour.                                            *)

\* attr<T> a, b;  the boxes of a scenario
BoxIds == {"a", "b"}

\* the payloads of attr_test.cpp
AttrValues == {24, 42}

\* no box object (before its declaration, after its destruction)
NoBox == [alive |-> FALSE, engaged |-> FALSE, live |-> FALSE, val |-> 0]

\* attr_storage(): bool engaged = false; nothing constructed in val
EmptyBox == [alive |-> TRUE, engaged |-> FALSE, live |-> FALSE, val |-> 0]

\* attr_storage(const value_type& v) : engaged(true) { ::new(&val) T(v); }
FullBox(v) == [alive |-> TRUE, engaged |-> TRUE, live |-> TRUE, val |-> v]

Outcome(h, dtors, ub, err, ret) ==
    [box |-> h, dtors |-> dtors, ub |-> ub, err |-> err, ret |-> ret,
     outcome |-> IF err = "none" THEN "ok" ELSE "throw"]

\* return *this;
Self == [kind |-> "self", v |-> 0]

\* the expression does not compile
Rejected(h) == [Outcome(h, 0, FALSE, "none", Void) EXCEPT !.outcome = "ill_formed"]

\* ::new(std::addressof(val)) value_type(v)
construct_value(b, v) == [b EXCEPT !.live = TRUE, !.val = v]

\* reinterpret_cast<value_type*>(std::addressof(val))->~value_type()
destruct_value(b) == [b EXCEPT !.live = FALSE]

\* does *t compile for a t of type T (no value type of the tests has one)
HasUnaryStar == FALSE

\* constexpr attr() noexcept = default;
attr_default(h, x) == Outcome([h EXCEPT ![x] = EmptyBox], 0, FALSE, "none", Void)

\* explicit attr(const value_type& value) : BaseType(value): an exception of
\* T's copy constructor leaves the constructor of the storage, no box exists
attr_from_value(h, x, v, throws) ==
    IF throws
    THEN Outcome(h, 0, FALSE, "T", Void)
    ELSE Outcome([h EXCEPT ![x] = FullBox(v)], 0, FALSE, "none", Void)

\* attr(const attr& other) : BaseType() { engaged = other.engaged;
\*   if (engaged) ::new(&val) value_type(*pOtherValue); }
\* an exception of T's copy constructor leaves the body with engaged already
\* true and the base's destructor ~attr_storage() runs T's destructor on the
\* storage that holds no object
attr_copy(h, x, y, throws) ==
    IF ~h[y].engaged
    THEN Outcome([h EXCEPT ![x] = EmptyBox], 0, FALSE, "none", Void)
    ELSE IF throws
         THEN Outcome(h, 1, TRUE, "T", Void)
         ELSE Outcome([h EXCEPT ![x] = FullBox(h[y].val)], 0, ~h[y].live, "none", Void)

\* fault: a move constructor that leaves the source disengaged
attr_move_emptying(h, x, y) ==
    IF ~h[y].engaged
    THEN Outcome([h EXCEPT ![x] = EmptyBox], 0, FALSE, "none", Void)
    ELSE Outcome([h EXCEPT ![x] = FullBox(h[y].val),
                           ![y] = [destruct_value(h[y]) EXCEPT !.engaged = FALSE]],
                 1, ~h[y].live, "none", Void)

\* attr(attr&& other) noexcept : BaseType() { engaged = other.engaged;
\*   if (engaged) ::new(&val) value_type(std::move(*pOtherValue)); }
\* nothing is written to other: its flag stays and the moved-from T in its
\* storage stays constructed
attr_move(h, x, y) ==
    IF ~h[y].engaged
    THEN Outcome([h EXCEPT ![x] = EmptyBox], 0, FALSE, "none", Void)
    ELSE Outcome([h EXCEPT ![x] = FullBox(h[y].val)], 0, ~h[y].live, "none", Void)

\* fault: a destructor that does not look at the engaged flag
attr_storage_dtor_unconditional(h, x) ==
    Outcome([h EXCEPT ![x] = NoBox], 1, ~h[x].live, "none", Void)

\* ~attr_storage() { if (engaged) destruct_value(); }
attr_storage_dtor(h, x) ==
    Outcome([h EXCEPT ![x] = NoBox], IF h[x].engaged THEN 1 ELSE 0,
            h[x].engaged /\ ~h[x].live, "none", Void)

\* explicit operator bool() const { return engaged; }
attr_bool(h, x) == Outcome(h, 0, FALSE, "none", Value(IF h[x].engaged THEN 1 ELSE 0))

\* fault: a copy assignment that only copies the payload
attr_assign_copy_payload_only(h, x, y, throws) ==
    Outcome([h EXCEPT ![x].val = h[y].val], 0, FALSE, "none", Self)

\* attr& operator=(const attr& other)
attr_assign_copy(h, x, y, throws) ==
    CASE h[x].engaged /\ h[y].engaged ->
           \* *get_value_address() = *pOtherValue;
           IF throws
           THEN Outcome(h, 0, ~h[x].live \/ ~h[y].live, "T", Void)
           ELSE Outcome([h EXCEPT ![x].val = h[y].val], 0, ~h[x].live \/ ~h[y].live,
                        "none", Self)
      [] h[x].engaged /\ ~h[y].engaged ->
           \* destruct_value(); engaged = false;
           Outcome([h EXCEPT ![x] = [destruct_value(h[x]) EXCEPT !.engaged = FALSE]],
                   1, ~h[x].live, "none", Self)
      [] ~h[x].engaged /\ h[y].engaged ->
           \* construct_value(*pOtherValue); engaged = true;
           IF throws
           THEN Outcome(h, 0, ~h[y].live, "T", Void)
           ELSE Outcome([h EXCEPT ![x] = [construct_value(h[x], h[y].val)
                                            EXCEPT !.engaged = TRUE]],
                        0, ~h[y].live, "none", Self)
      [] OTHER -> Outcome(h, 0, FALSE, "none", Self)

\* fault: a move assignment that leaves the source disengaged
attr_assign_move_emptying(h, x, y) ==
    Outcome([attr_assign_copy(h, x, y, FALSE).box EXCEPT ![y].engaged = FALSE,
                                                        ![y].live = FALSE],
            attr_assign_copy(h, x, y, FALSE).dtors, FALSE, "none", Self)

\* attr& operator=(attr&& other): the same steps with std::move(*pOtherValue)
attr_assign_move(h, x, y) == attr_assign_copy(h, x, y, FALSE)

\* template<class U> attr& operator=(U&& u)
attr_assign_value(h, x, v, throws) ==
    IF h[x].engaged
    THEN \* *get_value_address() = std::forward<U>(u);
         IF throws
         THEN Outcome(h, 0, ~h[x].live, "T", Void)
         ELSE Outcome([h EXCEPT ![x].val = v], 0, ~h[x].live, "none", Self)
    ELSE \* engaged = true; construct_value(std::forward<U>(u));
         IF throws
         THEN Outcome([h EXCEPT ![x].engaged = TRUE], 0, FALSE, "T", Void)
         ELSE Outcome([h EXCEPT ![x] = [construct_value(h[x], v) EXCEPT !.engaged = TRUE]],
                      0, FALSE, "none", Self)

\* the body of swap(attr& other) where it compiles
attr_swap_body(h, x, y) ==
    CASE h[x].engaged /\ h[y].engaged ->
           \* swap(**this, *other);
           Outcome([h EXCEPT ![x].val = h[y].val, ![y].val = h[x].val], 0,
                   ~h[x].live \/ ~h[y].live, "none", Void)
      [] h[x].engaged /\ ~h[y].engaged ->
           \* other.construct_value(std::move(val)); destruct_value();
           \* swap(engaged, other.engaged);
           Outcome([h EXCEPT ![y] = [construct_value(h[y], h[x].val) EXCEPT !.engaged = TRUE],
                             ![x] = [destruct_value(h[x]) EXCEPT !.engaged = FALSE]],
                   1, ~h[x].live, "none", Void)
      [] ~h[x].engaged /\ h[y].engaged ->
           \* construct_value(std::move(other.val)); other.destruct_value();
           \* swap(engaged, other.engaged);
           Outcome([h EXCEPT ![x] = [construct_value(h[x], h[y].val) EXCEPT !.engaged = TRUE],
                             ![y] = [destruct_value(h[y]) EXCEPT !.engaged = FALSE]],
                   1, ~h[y].live, "none", Void)
      [] OTHER -> Outcome(h, 0, FALSE, "none", Void)

\* void swap(attr& other): its body names **this and *other; attr has no
\* operator*, so the expressions compile only through the conversion to T&
\* and T's own unary *, and a call of swap is rejected for every other T
attr_swap(h, x, y) == IF HasUnaryStar THEN attr_swap_body(h, x, y) ELSE Rejected(h)

\* fault: a reset() that destroys whatever the flag says
attr_reset_unconditional(h, x) ==
    Outcome([h EXCEPT ![x] = [destruct_value(h[x]) EXCEPT !.engaged = FALSE]],
            1, ~h[x].live, "none", Void)

\* fault: a reset() that only clears the flag
attr_reset_flag_only(h, x) ==
    Outcome([h EXCEPT ![x].engaged = FALSE], 0, FALSE, "none", Void)

\* void reset() { if (engaged) { destruct_value(); engaged = false; } }
attr_reset(h, x) ==
    IF h[x].engaged
    THEN Outcome([h EXCEPT ![x] = [destruct_value(h[x]) EXCEPT !.engaged = FALSE]],
                 1, ~h[x].live, "none", Void)
    ELSE Outcome(h, 0, FALSE, "none", Void)

\* bool operator==(const attr& rhs) const
attr_eq(h, x, y) ==
    Outcome(h, 0, h[x].engaged /\ h[y].engaged /\ (~h[x].live \/ ~h[y].live), "none",
            Value(IF h[x].engaged = h[y].engaged /\ (~h[x].engaged \/ h[x].val = h[y].val)
                  THEN 1 ELSE 0))

\* fault: an ordering of boxes that puts the engaged box first
attr_cmp_engaged_first(h, x, y) ==
    Outcome(h, 0, h[x].engaged /\ h[y].engaged /\ (~h[x].live \/ ~h[y].live), "none",
            Value(IF h[x].engaged = h[y].engaged
                  THEN (IF ~h[x].engaged THEN 0 ELSE ThreeWay(h[x].val, h[y].val))
                  ELSE (IF h[x].engaged THEN 0 - 1 ELSE 1)))

\* constexpr std::strong_ordering operator<=>(const attr& rhs) const: equal
\* flags compare as equal when both are false and else as the values do;
\* different flags compare as bool <=> bool, false before true.  The values
\* are read only when both flags are set
attr_cmp(h, x, y) ==
    Outcome(h, 0, h[x].engaged /\ h[y].engaged /\ (~h[x].live \/ ~h[y].live), "none",
            Value(IF h[x].engaged = h[y].engaged
                  THEN (IF ~h[x].engaged THEN 0 ELSE ThreeWay(h[x].val, h[y].val))
                  ELSE (IF h[x].engaged THEN 1 ELSE 0 - 1)))

\* constexpr bool operator==(const T& value) const
\*   { return static_cast<bool>(*this) && *this == value; }
\* *this == value is this operator again: on an engaged box the call never
\* reaches a return, it recurses until the stack is used up or for ever
attr_eq_value(h, x, v) ==
    IF h[x].engaged
    THEN [Outcome(h, 0, TRUE, "none", Void) EXCEPT !.outcome = "diverges"]
    ELSE Outcome(h, 0, FALSE, "none", Value(0))

\* constexpr auto operator<=>(const T& value) const
\*   { return static_cast<bool>(*this) ? *this <=> value : std::strong_ordering::less; }
\* *this <=> value is this operator again, used before its return type is
\* deduced: no expression box <=> value compiles
attr_cmp_value(h, x, v) == Rejected(h)

\* fault: a get_value_ref() that does not look at the engaged flag
get_value_ref_unchecked(h, x) == Outcome(h, 0, ~h[x].live, "none", Value(h[x].val))

\* value_type& get_value_ref(): if (!engaged) throw_bad_attr_access();
\* return *std::bit_cast<value_type*>(std::addressof(val));
get_value_ref(h, x) ==
    IF h[x].engaged
    THEN Outcome(h, 0, ~h[x].live, "none", Value(h[x].val))
    ELSE Outcome(h, 0, FALSE, "bad_attr_access", Void)

\* operator T&() &, operator const T&() const &, operator T&&() &&
attr_conv(h, x) == get_value_ref(h, x)

\* no operation on a box yet
NoAttrOp ==
    [op |-> "none", x |-> "a", y |-> "a", arg |-> 0, ret |-> Void, err |-> "none",
     dtors |-> 0, outcome |-> "ok"]

----------------------------------------------------------------------------
(* The state machine *)

\* the default member initializers
DefaultOf(f) ==
    CASE f = "secret_"    -> ""
      [] f = "secretSet_" -> FALSE
      [] f = "data_"      -> <<>>
      [] OTHER            -> 0

\* word k of a freshly constructed object of class c (a proxy's own word holds nothing)
InitWord(c, k) ==
    IF \E f \in Range(AllFields(c)) : FieldOffset(c, f) = k
    THEN DefaultOf(CHOOSE f \in Range(AllFields(c)) : FieldOffset(c, f) = k)
    ELSE 0

NoRef == [valid |-> FALSE, addr |-> 0, cls |-> "none", prop |-> "none"]

NoOp ==
    [op |-> "none", obj |-> 0, prop |-> "none", arg |-> 0, via |-> "member",
     calls |-> <<>>, ret |-> Void, err |-> NoError, outcome |-> "ok"]

\* the owners are constructed side by side from address 0 (an array; a
\* single object is an array of one)
Init ==
    /\ cls \in Classes
    /\ abi \in ABIs
    /\ layout = LayoutOf(abi)
    /\ objs = [i \in 1..CountOf(cls) |-> (i - 1) * Sizeof(cls)]
    /\ mem = [a \in 0..(CountOf(cls) * Sizeof(cls) - 1) |-> InitWord(cls, a % Sizeof(cls))]
    /\ last = NoOp
    /\ ref = NoRef
    /\ pc = "run"
    /\ box = [x \in BoxIds |-> NoBox]
    /\ did = NoAttrOp

\* the caller's record of an operation and the new state it leaves
Commit(res, i, c, p, op, v, via, bind) ==
    /\ mem' = res.mem
    /\ last' = [op |-> op, obj |-> i, prop |-> p,
                arg |-> IF res.outcome = "ill_formed" THEN 0 ELSE v, via |-> via,
                calls |-> res.calls, ret |-> res.ret, err |-> res.err,
                outcome |-> res.outcome]
    /\ pc' = IF res.outcome = "trap" THEN "crashed" ELSE "run"
    /\ ref' = IF bind /\ res.ret.kind = "ref"
              THEN [valid |-> TRUE, addr |-> res.ret.v, cls |-> c, prop |-> p]
              ELSE ref
    /\ UNCHANGED <<cls, abi, layout, objs, box, did>>

\* <op> v on the proxy of class c at address this, which the caller reached
\* as obj[i].p (via "member") or through a reference (via "ref", i = 0)
PerformAt(i, c, p, this, op, v, via, bind) ==
    /\ pc = "run"
    /\ \E res \in Invoke(c, p, mem, this, op, v) :
          /\ CallsInRange(c, p, res.calls)
          /\ Commit(res, i, c, p, op, v, via, bind)

\* obj[i].p <op> v
Perform(i, p, op, v, bind) ==
    PerformAt(i, DeclClass(cls, p), p, ProxyAddr(cls, objs[i], p), op, v, "member", bind)

\* T x = obj.p;
Conversion == \E i \in DOMAIN objs, p \in PropsOf(cls) : Perform(i, p, "conv", 0, FALSE)

\* obj.p.get()
Get == \E i \in DOMAIN objs, p \in PropsOf(cls) : Perform(i, p, "get", 0, FALSE)

\* obj.p.get_value()
GetValue == \E i \in DOMAIN objs, p \in PropsOf(cls) : Perform(i, p, "get_value", 0, FALSE)

\* obj.p == v
Equals ==
    \E i \in DOMAIN objs, p \in PropsOf(cls) :
        \E v \in ValuesOf(TypeOf(DeclClass(cls, p), p)) : Perform(i, p, "eq", v, FALSE)

\* obj.p <=> v
Compare ==
    \E i \in DOMAIN objs, p \in PropsOf(cls) :
        \E v \in ValuesOf(TypeOf(DeclClass(cls, p), p)) : Perform(i, p, "cmp", v, FALSE)

\* obj.p->  *obj.p  obj.p[k]
PointerAccess ==
    \E i \in DOMAIN objs, p \in PropsOf(cls), op \in {"arrow", "deref", "subscript"} :
        \E k \in 0..MaxIndex : Perform(i, p, op, k, FALSE)

\* obj.p = v;
Assign ==
    \E i \in DOMAIN objs, p \in PropsOf(cls) :
        \E v \in ValuesOf(TypeOf(DeclClass(cls, p), p)) : Perform(i, p, "assign", v, FALSE)

\* obj.p.set(v);
SetValue ==
    \E i \in DOMAIN objs, p \in PropsOf(cls) :
        \E v \in ValuesOf(TypeOf(DeclClass(cls, p), p)) : Perform(i, p, "set", v, FALSE)

\* obj.p op= d;
CompoundAssign ==
    \E i \in DOMAIN objs, p \in PropsOf(cls), op \in CompoundOps :
        \E d \in OperandsOf(TypeOf(DeclClass(cls, p), p)) : Perform(i, p, op, d, FALSE)

\* auto& r = ++obj.p;
PrefixIncrement == \E i \in DOMAIN objs, p \in PropsOf(cls) : Perform(i, p, "preinc", 0, TRUE)

\* auto& r = --obj.p;
PrefixDecrement == \E i \in DOMAIN objs, p \in PropsOf(cls) : Perform(i, p, "predec", 0, TRUE)

\* T x = obj.p++;
PostfixIncrement == \E i \in DOMAIN objs, p \in PropsOf(cls) : Perform(i, p, "postinc", 0, FALSE)

\* T x = obj.p--;
PostfixDecrement == \E i \in DOMAIN objs, p \in PropsOf(cls) : Perform(i, p, "postdec", 0, FALSE)

\* r = v;  through the reference a prefix operator returned
AssignThroughRef ==
    /\ ref.valid
    /\ \E v \in ValuesOf(TypeOf(ref.cls, ref.prop)) :
          PerformAt(0, ref.cls, ref.prop, ref.addr, "assign", v, "ref", FALSE)

\* T x = r;  through the reference a prefix operator returned
ReadThroughRef ==
    /\ ref.valid
    /\ PerformAt(0, ref.cls, ref.prop, ref.addr, "conv", 0, "ref", FALSE)

\* the words of the object at base address b that hold data members
FieldWords(c, b) == {b + FieldOffset(c, f) : f \in Range(AllFields(c))}

\* O b = obj[i];  the implicit copy constructor of the owner class copies
\* the data members into a new object placed after the live ones; where the
\* class has no copy constructor the declaration does not compile
CopyOwner ==
    /\ pc = "run"
    /\ \E i \in DOMAIN objs :
         IF OwnerCopyConstructible(cls)
         THEN /\ Len(objs) <= ArrLen
              /\ objs' = Append(objs, Len(objs) * Sizeof(cls))
              /\ mem' = [a \in 0..((Len(objs) + 1) * Sizeof(cls) - 1) |->
                           IF a \in DOMAIN mem THEN mem[a]
                           ELSE IF a \in FieldWords(cls, Len(objs) * Sizeof(cls))
                                THEN mem[objs[i] + (a - Len(objs) * Sizeof(cls))]
                                ELSE 0]
              /\ last' = [NoOp EXCEPT !.op = "copy", !.obj = i, !.arg = Len(objs) + 1]
              /\ UNCHANGED <<cls, abi, layout, ref, pc, box, did>>
         ELSE /\ last' = [NoOp EXCEPT !.op = "copy", !.obj = i, !.outcome = "ill_formed"]
              /\ UNCHANGED <<cls, abi, layout, objs, mem, ref, pc, box, did>>

Next ==
    \/ Conversion
    \/ Get
    \/ GetValue
    \/ Equals
    \/ Compare
    \/ PointerAccess
    \/ Assign
    \/ SetValue
    \/ CompoundAssign
    \/ PrefixIncrement
    \/ PrefixDecrement
    \/ PostfixIncrement
    \/ PostfixDecrement
    \/ AssignThroughRef
    \/ ReadThroughRef
    \/ CopyOwner

Spec == Init /\ [][Next]_vars

----------------------------------------------------------------------------
(* The state machine of a caller that declares two boxes and uses them *)

\* attr<T> a, b;  both default-constructed; no owner objects in this run
AttrInit ==
    /\ box = [x \in BoxIds |-> EmptyBox]
    /\ did = NoAttrOp
    /\ pc = "run"
    /\ cls = "none"
    /\ abi = "overlap"
    /\ layout = LayoutOf(abi)
    /\ objs = <<>>
    /\ mem = <<>>
    /\ last = NoOp
    /\ ref = NoRef

\* the caller's record of the operation op on box x (with box y, and value
\* arg) that ended as res, and the boxes it leaves; an operation that used
\* storage without a live T either goes on as the code reads or stops the
\* program, and the program does not go on after a call that never returns
AttrStep(op, x, y, arg, res) ==
    /\ pc = "run"
    /\ \E o \in (IF res.ub THEN {res.outcome, "trap"} ELSE {res.outcome}) :
          /\ box' = IF o = "trap" THEN box ELSE res.box
          /\ did' = [op |-> op, x |-> x, y |-> y, arg |-> arg,
                     ret |-> IF o = "trap" THEN Void ELSE res.ret,
                     err |-> IF o = "trap" THEN "none" ELSE res.err,
                     dtors |-> res.dtors, outcome |-> o]
          /\ pc' = IF o = "trap" THEN "crashed" ELSE IF o = "diverges" THEN "hung" ELSE "run"
    /\ UNCHANGED <<cls, abi, layout, objs, mem, last, ref>>

AttrNext ==
    \* attr<T> x;
    \/ \E x \in BoxIds :
          ~box[x].alive /\ AttrStep("default", x, x, 0, attr_default(box, x))
    \* attr<T> x(v);
    \/ \E x \in BoxIds, v \in AttrValues, throws \in BOOLEAN :
          ~box[x].alive /\ AttrStep("from_value", x, x, v, attr_from_value(box, x, v, throws))
    \* attr<T> x(y);
    \/ \E x \in BoxIds, y \in BoxIds, throws \in BOOLEAN :
          /\ ~box[x].alive /\ box[y].alive
          /\ AttrStep("copy", x, y, 0, attr_copy(box, x, y, throws))
    \* attr<T> x(std::move(y));
    \/ \E x \in BoxIds, y \in BoxIds :
          /\ ~box[x].alive /\ box[y].alive
          /\ AttrStep("move", x, y, 0, attr_move(box, x, y))
    \* } the end of x's scope
    \/ \E x \in BoxIds :
          box[x].alive /\ AttrStep("destroy", x, x, 0, attr_storage_dtor(box, x))
    \* if (x)
    \/ \E x \in BoxIds :
          box[x].alive /\ AttrStep("bool", x, x, 0, attr_bool(box, x))
    \* x = y;
    \/ \E x \in BoxIds, y \in BoxIds, throws \in BOOLEAN :
          /\ box[x].alive /\ box[y].alive
          /\ AttrStep("assign_copy", x, y, 0, attr_assign_copy(box, x, y, throws))
    \* x = std::move(y);
    \/ \E x \in BoxIds, y \in BoxIds :
          /\ box[x].alive /\ box[y].alive
          /\ AttrStep("assign_move", x, y, 0, attr_assign_move(box, x, y))
    \* x = v;
    \/ \E x \in BoxIds, v \in AttrValues, throws \in BOOLEAN :
          box[x].alive /\ AttrStep("assign_value", x, x, v, attr_assign_value(box, x, v, throws))
    \* x.swap(y);
    \/ \E x \in BoxIds, y \in BoxIds :
          /\ box[x].alive /\ box[y].alive
          /\ AttrStep("swap", x, y, 0, attr_swap(box, x, y))
    \* x.reset();
    \/ \E x \in BoxIds :
          box[x].alive /\ AttrStep("reset", x, x, 0, attr_reset(box, x))
    \* x == y
    \/ \E x \in BoxIds, y \in BoxIds :
          /\ box[x].alive /\ box[y].alive
          /\ AttrStep("eq", x, y, 0, attr_eq(box, x, y))
    \* x <=> y
    \/ \E x \in BoxIds, y \in BoxIds :
          /\ box[x].alive /\ box[y].alive
          /\ AttrStep("cmp", x, y, 0, attr_cmp(box, x, y))
    \* x == v
    \/ \E x \in BoxIds, v \in AttrValues :
          box[x].alive /\ AttrStep("eq_value", x, x, v, attr_eq_value(box, x, v))
    \* x <=> v
    \/ \E x \in BoxIds, v \in AttrValues :
          box[x].alive /\ AttrStep("cmp_value", x, x, v, attr_cmp_value(box, x, v))
    \* T& r = x;
    \/ \E x \in BoxIds :
          box[x].alive /\ AttrStep("conv", x, x, 0, attr_conv(box, x))

AttrSpec == AttrInit /\ [][AttrNext]_vars

----------------------------------------------------------------------------
(* Properties of the read-write proxy *)

\* the owner class and the proxy address the last operation acted on
LastClass == DeclClass(cls, last.prop)

LastThis ==
    IF last.via = "ref" THEN ref.addr ELSE ProxyAddr(cls, objs[last.obj], last.prop)

\* the last operation was <op> on a proxy of access kind acc and ran (it
\* compiled, and no undefined behaviour stopped it)
Ran(acc) ==
    /\ last.op \notin {"none", "copy"}
    /\ last.outcome \in {"ok", "throw"}
    /\ Access(LastClass, last.prop) = acc

\* the values a setter stores as they are: its accepted domain
Accepted(c, p, v) ==
    CASE c = "ValidatedOwner" -> ClampLo <= v /\ v <= ClampHi
      [] c = "Rectangle"      -> v >= 0
      [] c = "StrictOwner"    -> v >= 0
      [] OTHER                -> TRUE

\* what obj.p.get() returns in memory m
ReadIn(c, p, m, this) == PropertyBase_get(c, p, m, this).ret

\* C1: after the assignment o.prop = v of a value v of the setter's accepted
\* domain to a read-write property, o.prop.get() and the conversion to T
\* both return v.
C1_RoundTrip ==
    (Ran("RW") /\ last.op = "assign" /\ last.outcome = "ok"
               /\ Accepted(LastClass, last.prop, last.arg))
    => /\ PropertyBase_get(LastClass, last.prop, mem, LastThis).ret = Value(last.arg)
       /\ PropertyBase_conv(LastClass, last.prop, mem, LastThis).ret = Value(last.arg)

\* a clamped property was assigned an accepted value other than the default
\* and reads it back
C1_Witness ==
    /\ cls = "ValidatedOwner" /\ last.op = "assign" /\ last.outcome = "ok"
    /\ last.arg = 95
    /\ PropertyBase_get(LastClass, last.prop, mem, LastThis).ret = Value(95)

\* the step is  o.prop op= d  right after  o.prop = v  on the same proxy,
\* and both completed
CompoundAfterAssign ==
    /\ last.op = "assign" /\ last.outcome = "ok" /\ last.via = "member"
    /\ last'.op \in CompoundOps /\ last'.outcome = "ok"
    /\ last'.obj = last.obj /\ last'.prop = last.prop
    /\ Access(LastClass, last.prop) = "RW"

\* the value read after the step equals the value read after o.prop = (v op d)
\* for the value v op d of the built-in operator
SameAsAssigningResult ==
    \E e \in BinaryOp(TypeOf(LastClass, last.prop), last'.op, last.arg, last'.arg) :
        /\ e.kind = "val"
        /\ ReadIn(LastClass, last.prop, mem', LastThis)
             = ReadIn(LastClass, last.prop,
                      PropertyBase_assign(LastClass, last.prop, mem, LastThis, e.v).mem,
                      LastThis)

\* C2 as stated: for every start value v and operand d, the value read after
\* o.prop = v; o.prop op= d equals the value read after o.prop = (v op d).
C2_LawForEveryStartValue == [][CompoundAfterAssign => SameAsAssigningResult]_vars

\* C2: for every start value v of the setter's accepted domain and every
\* operand d, the value read after o.prop = v; o.prop op= d equals the value
\* read after o.prop = (v op d) passed through the same setter.
C2_CompoundLaw ==
    [][(CompoundAfterAssign /\ Accepted(LastClass, last.prop, last.arg))
          => SameAsAssigningResult]_vars

\* value = 95; value += 50; reads 100 under the clamp to [0, 100]
C2_Witness ==
    /\ cls = "ValidatedOwner" /\ last.op = "+" /\ last.arg = 50 /\ last.outcome = "ok"
    /\ last.calls[1].v = 95
    /\ ReadIn("ValidatedOwner", "value", mem, LastThis) = Value(ClampHi)

\* C3: a compound assignment on a read-write property that runs makes
\* exactly one getter call and then exactly one setter call, both on the
\* owner of the proxy, the setter's argument being (getter result op
\* operand); memory after it is exactly what that setter call left.
C3_OneGetThenOneSet ==
    [][(last'.op \in CompoundOps /\ last'.outcome \in {"ok", "throw"})
          => /\ Len(last'.calls) = 2
             /\ last'.calls[1]
                  = GetCall(objs[last'.obj],
                            CallGetter(DeclClass(cls, last'.prop), last'.prop, mem,
                                       objs[last'.obj]))
             /\ last'.calls[2].fn = "set"
             /\ last'.calls[2].owner = objs[last'.obj]
             /\ Val(last'.calls[2].v)
                  \in BinaryOp(TypeOf(DeclClass(cls, last'.prop), last'.prop), last'.op,
                               last'.calls[1].v, last'.arg)
             /\ mem' = CallSetter(DeclClass(cls, last'.prop), last'.prop, mem,
                                  objs[last'.obj], last'.calls[2].v).mem]_vars

\* value *= 2 read 1 and stored 2: one get, then one set, on the same owner
C3_Witness ==
    /\ cls = "ValidatedOwner" /\ last.op = "*" /\ last.arg = 2 /\ last.outcome = "ok"
    /\ Len(last.calls) = 2
    /\ last.calls[1].fn = "get" /\ last.calls[1].v = 1
    /\ last.calls[2].fn = "set" /\ last.calls[2].v = 2
    /\ last.calls[1].owner = objs[last.obj] /\ last.calls[2].owner = objs[last.obj]

----------------------------------------------------------------------------
(* Owner copies and owner resolution *)

\* the words of memory m that belong to the owner at base address b
WordsOf(b) == b..(b + Sizeof(cls) - 1)

\* C4: copying an owner is permitted and yields an independent owner: the
\* copy O b = a compiles, b starts with a's property values, and an
\* assignment to a property of b reads back on b and leaves every property
\* of a as it was.
C4_OwnerCopyIndependent ==
    last.op = "copy"
    => /\ last.outcome = "ok"
       /\ last.arg \in DOMAIN objs
       /\ \A p \in PropsOf(cls) :
            Access(DeclClass(cls, p), p) = "RW"
            => /\ ReadIn(DeclClass(cls, p), p, mem, ProxyAddr(cls, objs[last.arg], p))
                    = ReadIn(DeclClass(cls, p), p, mem, ProxyAddr(cls, objs[last.obj], p))
               /\ \A v \in ValuesOf(TypeOf(DeclClass(cls, p), p)) :
                    \A a \in WordsOf(objs[last.obj]) :
                       PropertyBase_assign(DeclClass(cls, p), p, mem,
                                           ProxyAddr(cls, objs[last.arg], p), v).mem[a]
                         = mem[a]

\* the step is an operation that ran on a proxy reached as obj[i].p
MemberStep == last'.via = "member" /\ last'.op \notin {"none", "copy"}
                 /\ last'.outcome \in {"ok", "throw"}

\* C5: owner resolution is per instance: every getter and setter call an
\* operation on obj[i].p makes is made on obj[i], the instance that
\* contains the proxy (array element, single object, base subobject), and
\* the operation leaves the words of every other owner as they were, so
\* each owner keeps the last value written to it.
C5_OwnerPerInstance ==
    [][MemberStep
          => /\ \A k \in 1..Len(last'.calls) : last'.calls[k].owner = objs[last'.obj]
             /\ \A j \in DOMAIN objs :
                   j # last'.obj => \A a \in WordsOf(objs[j]) : mem'[a] = mem[a]
             /\ \A p \in PropsOf(cls) :
                   GetOwner(DeclClass(cls, p), p, ProxyAddr(cls, objs[last'.obj], p))
                      = objs[last'.obj]]_vars

\* the second element of the array was assigned 1 while the first holds -1,
\* under the layout that gives the proxy a non-zero offset
C5_Witness ==
    /\ cls = "BasicOwner" /\ abi = "distinct" /\ Len(objs) = 2
    /\ last.op = "assign" /\ last.obj = 2 /\ last.arg = 1 /\ last.outcome = "ok"
    /\ last.calls = <<SetCall(objs[2], 1)>>
    /\ ReadIn("BasicOwner", "value", mem, ProxyAddr(cls, objs[1], "value")) = Value(0 - 1)
    /\ ReadIn("BasicOwner", "value", mem, ProxyAddr(cls, objs[2], "value")) = Value(1)

----------------------------------------------------------------------------
(* Read-only and write-only proxies *)

\* what the read-write property p of obj[i] reads now
Now(i, p) == ReadIn(DeclClass(cls, p), p, mem, ProxyAddr(cls, objs[i], p)).v

\* Rectangle::setWidth and setHeight store max(v, 0)
NonNegative(v) == IF v > 0 THEN v ELSE 0

\* C6: a read-only computed property is never stale: in every state the
\* conversion, get() and get_value() of area return width * height (and of
\* perimeter 2 * (width + height)) of the values width and height read now;
\* right after a write of v to width, area is the normalised v times height;
\* and what a read of area returned is the product of what they read now.
C6_ComputedNeverStale ==
    cls = "Rectangle"
    => /\ \A i \in DOMAIN objs :
            /\ \A r \in {PropertyBaseReadOnly_conv("Rectangle", "area", mem,
                                                   ProxyAddr(cls, objs[i], "area")),
                         PropertyBaseReadOnly_get("Rectangle", "area", mem,
                                                  ProxyAddr(cls, objs[i], "area")),
                         PropertyBaseReadOnly_get_value("Rectangle", "area", mem,
                                                        ProxyAddr(cls, objs[i], "area"))} :
                  r.ret = Value(Now(i, "width") * Now(i, "height"))
            /\ PropertyBaseReadOnly_get("Rectangle", "perimeter", mem,
                                        ProxyAddr(cls, objs[i], "perimeter")).ret
                 = Value(2 * (Now(i, "width") + Now(i, "height")))
       /\ (last.op \in {"assign", "set"} /\ last.prop = "width" /\ last.outcome = "ok"
             /\ last.via = "member")
            => PropertyBaseReadOnly_get("Rectangle", "area", mem,
                                        ProxyAddr(cls, objs[last.obj], "area")).ret
                 = Value(NonNegative(last.arg) * Now(last.obj, "height"))
       /\ (last.op \in {"conv", "get", "get_value"} /\ last.prop = "area")
            => last.ret = Value(Now(last.obj, "width") * Now(last.obj, "height"))

\* area was read as 1 after width and height were both written
C6_Witness ==
    /\ cls = "Rectangle" /\ last.op = "get" /\ last.prop = "area"
    /\ last.ret = Value(1)
    /\ Now(1, "width") = 1 /\ Now(1, "height") = 1

\* the step is an operation on a read-only property
ReadOnlyStep ==
    /\ last'.op \notin {"none", "copy"}
    /\ Access(DeclClass(cls, last'.prop), last'.prop) = "RO"

AllOps == ReadOps \cup WriteOps

\* what the caller can observe of the result r of an operation on the proxy
\* at address this: how it ended, and what it returned (the proxy itself,
\* nothing, or a value)
Observable(r, this) ==
    [outcome |-> r.outcome, err |-> r.err,
     ret |-> IF r.ret.kind = "ref"
             THEN (IF r.ret.v = this THEN "self" ELSE "other")
             ELSE r.ret.kind,
     value |-> IF r.ret.kind = "value" THEN <<r.ret.v>> ELSE <<>>,
     getters |-> Cardinality({k \in 1..Len(r.calls) : r.calls[k].fn = "get"})]

\* C8: a write-only property has assignment and set() only: each calls the
\* setter exactly once with the given value on the owner of the proxy, calls
\* no getter, and returns the proxy itself (assignment) or nothing (set);
\* every other operation does not compile; and whatever two owners store,
\* every operation with the same argument gives the caller the same
\* observation on both.
C8_WriteOnlyLeaksNothing ==
    cls = "WriteOnlyOwner"
    => /\ (last.op \notin {"none", "copy"} /\ last.op \notin {"assign", "set"})
            => last.outcome = "ill_formed"
       /\ last.op \in {"assign", "set"}
            => /\ last.outcome = "ok"
               /\ last.calls = <<SetCall(objs[last.obj], last.arg)>>
               /\ last.ret.kind = (IF last.op = "assign" THEN "ref" ELSE "void")
               /\ last.ret.kind = "ref" => last.ret.v = LastThis
       /\ \A i, j \in DOMAIN objs, op \in AllOps, v \in Secrets :
            {Observable(r, ProxyAddr(cls, objs[i], "secret")) :
                r \in Invoke("WriteOnlyOwner", "secret", mem,
                             ProxyAddr(cls, objs[i], "secret"), op, v)}
              = {Observable(r, ProxyAddr(cls, objs[j], "secret")) :
                    r \in Invoke("WriteOnlyOwner", "secret", mem,
                                 ProxyAddr(cls, objs[j], "secret"), op, v)}

\* two owners hold different secrets, the second one just assigned
C8_Witness ==
    /\ cls = "WriteOnlyOwner" /\ Len(objs) = 2
    /\ last.op = "assign" /\ last.obj = 2 /\ last.arg = "password123"
    /\ WriteOnlyOwner_isSecretSet(mem, objs[1]) = TRUE
    /\ Load(mem, objs[1] + FieldOffset("WriteOnlyOwner", "secret_")) = "hunter2"
    /\ Load(mem, objs[2] + FieldOffset("WriteOnlyOwner", "secret_")) = "password123"

----------------------------------------------------------------------------
(* Errors of the setter, and the prefix operators *)

\* the owner object whose proxy p lies at address a
OwnerAt(a, p) == CHOOSE b \in Range(objs) : ProxyAddr(cls, b, p) = a

\* the owner the operation of the step acts on
StepOwner == IF last'.via = "ref" THEN OwnerAt(ref.addr, last'.prop) ELSE objs[last'.obj]

\* the step is a write (assignment, set(), compound assignment, ++ or --)
\* that ran and whose setter call raised an error
FailingWrite ==
    /\ last'.op \in WriteOps
    /\ last'.outcome \in {"ok", "throw"}
    /\ \E k \in 1..Len(last'.calls) :
          /\ last'.calls[k].fn = "set"
          /\ CallSetter(DeclClass(cls, last'.prop), last'.prop, mem, StepOwner,
                        last'.calls[k].v).err # NoError

\* C9: an error the owner's setter raises during assignment, set(),
\* compound assignment or ++ / -- leaves the operation as that same error:
\* the failing setter call is the only setter call and the last call of the
\* operation, nothing is returned, and memory is as the setter left it.
C9_SetterErrorPropagates ==
    [][FailingWrite
          => /\ last'.outcome = "throw"
             /\ last'.calls[Len(last'.calls)].fn = "set"
             /\ last'.err = CallSetter(DeclClass(cls, last'.prop), last'.prop, mem, StepOwner,
                                       last'.calls[Len(last'.calls)].v).err
             /\ Cardinality({k \in 1..Len(last'.calls) : last'.calls[k].fn = "set"}) = 1
             /\ last'.ret = Void
             /\ mem' = CallSetter(DeclClass(cls, last'.prop), last'.prop, mem, StepOwner,
                                  last'.calls[Len(last'.calls)].v).mem]_vars

\* value += -1 on a stored 0 computed -1, which the setter rejected
C9_Witness ==
    /\ cls = "StrictOwner" /\ last.op = "+" /\ last.arg = 0 - 1
    /\ last.outcome = "throw"
    /\ last.err = [kind |-> "invalid_argument", v |-> 0 - 1]
    /\ last.calls = <<GetCall(objs[1], 0), SetCall(objs[1], 0 - 1)>>
    /\ Now(1, "value") = 0

\* the step is ++obj.p (step 1) or --obj.p (step -1) and it ran
PrefixStep(op) == last'.op = op /\ last'.outcome \in {"ok", "throw"}

\* one getter call on the owner, then one setter call on it with the value
\* read plus step; the proxy itself is returned and the caller's reference
\* is bound to it
ReadsOnceWritesOnce(step) ==
    /\ last'.calls
         = <<GetCall(objs[last'.obj],
                     CallGetter(DeclClass(cls, last'.prop), last'.prop, mem, objs[last'.obj])),
             SetCall(objs[last'.obj],
                     CallGetter(DeclClass(cls, last'.prop), last'.prop, mem, objs[last'.obj])
                        + step)>>
    /\ mem' = CallSetter(DeclClass(cls, last'.prop), last'.prop, mem, objs[last'.obj],
                         last'.calls[2].v).mem
    /\ last'.outcome = "ok"
         => /\ last'.ret = Ref(ProxyAddr(cls, objs[last'.obj], last'.prop))
            /\ ref' = [valid |-> TRUE, addr |-> ProxyAddr(cls, objs[last'.obj], last'.prop),
                       cls |-> DeclClass(cls, last'.prop), prop |-> last'.prop]

\* C10: prefix ++ and -- on a read-write property read the value once,
\* write the incremented / decremented value through the setter once and
\* return the proxy itself: an assignment of w through the returned
\* reference is one call of the same owner's setter with w, and a read
\* through it returns what the owner's getter returns at that time.
C10_PrefixReturnsProxy ==
    [][/\ PrefixStep("preinc") => ReadsOnceWritesOnce(1)
       /\ PrefixStep("predec") => ReadsOnceWritesOnce(0 - 1)
       /\ (last'.via = "ref" /\ last'.op = "assign")
            => /\ last'.calls = <<SetCall(OwnerAt(ref.addr, ref.prop), last'.arg)>>
               /\ mem' = CallSetter(ref.cls, ref.prop, mem, OwnerAt(ref.addr, ref.prop),
                                    last'.arg).mem
       /\ (last'.via = "ref" /\ last'.op = "conv")
            => /\ last'.ret = Value(CallGetter(ref.cls, ref.prop, mem,
                                               OwnerAt(ref.addr, ref.prop)))
               /\ mem' = mem]_vars

\* ++value on a stored 100 wrote 101, which the setter clamped: the
\* reference returned is the proxy, and it reads 100
C10_Witness ==
    /\ cls = "ValidatedOwner" /\ last.op = "preinc" /\ last.outcome = "ok"
    /\ last.calls = <<GetCall(objs[1], ClampHi), SetCall(objs[1], ClampHi + 1)>>
    /\ last.ret = Ref(ProxyAddr(cls, objs[1], "value"))
    /\ ref.valid /\ ref.addr = ProxyAddr(cls, objs[1], "value")
    /\ PropertyBase_conv(ref.cls, ref.prop, mem, ref.addr).ret = Value(ClampHi)

\* the step is obj.p++ (op "postinc") or obj.p-- (op "postdec") and it ran
PostfixStep(op) == last'.op = op /\ last'.outcome \in {"ok", "throw"}

\* the value the owner's getter returned before the step is what the
\* operator returns, and the memory afterwards is what the owner's setter
\* leaves when called with that value plus step, so that a read afterwards
\* returns the getter's result on the setter's result
ReturnsOldStoresNew(step) ==
    /\ last'.outcome = "ok"
         => last'.ret = Value(CallGetter(DeclClass(cls, last'.prop), last'.prop, mem,
                                         objs[last'.obj]))
    /\ mem' = CallSetter(DeclClass(cls, last'.prop), last'.prop, mem, objs[last'.obj],
                         CallGetter(DeclClass(cls, last'.prop), last'.prop, mem,
                                    objs[last'.obj]) + step).mem
    /\ CallGetter(DeclClass(cls, last'.prop), last'.prop, mem', objs[last'.obj])
         = CallGetter(DeclClass(cls, last'.prop), last'.prop,
                      CallSetter(DeclClass(cls, last'.prop), last'.prop, mem,
                                 objs[last'.obj],
                                 CallGetter(DeclClass(cls, last'.prop), last'.prop, mem,
                                            objs[last'.obj]) + step).mem,
                      objs[last'.obj])

\* C11: postfix ++ and -- on a read-write property return the value the
\* property had before the operation, and afterwards the property reads
\* what the getter returns on the setter's result for that value plus one
\* (minus one for --).
C11_PostfixReturnsOld ==
    [][/\ PostfixStep("postinc") => ReturnsOldStoresNew(1)
       /\ PostfixStep("postdec") => ReturnsOldStoresNew(0 - 1)]_vars

\* value++ on a stored 100 under the clamp to [0, 100]: 100 is returned,
\* 101 went to the setter, and the property still reads 100
C11_Witness ==
    /\ cls = "ValidatedOwner" /\ last.op = "postinc" /\ last.outcome = "ok"
    /\ last.calls = <<GetCall(objs[1], ClampHi), SetCall(objs[1], ClampHi + 1)>>
    /\ last.ret = Value(ClampHi)
    /\ PropertyBase_conv("ValidatedOwner", "value", mem,
                         ProxyAddr(cls, objs[1], "value")).ret = Value(ClampHi)

\* the step is a write (assignment, set(), compound assignment, prefix or
\* postfix ++ / --) on obj[i].p that ran
WriteStep == MemberStep /\ last'.op \in WriteOps

\* what the getter of property q returns on obj[i] in memory m
ReadAt(m, i, q) == CallGetter(DeclClass(cls, q), q, m, objs[i])

\* the properties of the owner other than p that can be read
OtherReadable(p) == {q \in PropsOf(cls) \ {p} : Access(DeclClass(cls, q), q) # "WO"}

\* C12 as stated: a write on one property leaves the value read from every
\* other property of the same owner unchanged (every setter of the fixtures
\* writes only its own backing field).
C12_EveryOtherPropertyUnchanged ==
    [][WriteStep
          => \A q \in OtherReadable(last'.prop) :
                ReadAt(mem', last'.obj, q) = ReadAt(mem, last'.obj, q)]_vars

\* C12: a write, compound assignment or increment on one property leaves
\* the value read from every other property of the same owner unchanged
\* whose getter does not read the backing field the written property's
\* setter assigns; this holds for a base class property reached through a
\* derived owner and for the derived class's own property alike.
C12_IndependentProperties ==
    [][WriteStep
          => \A q \in OtherReadable(last'.prop) :
                Written(DeclClass(cls, last'.prop), last'.prop)
                      \notin ReadBy(DeclClass(cls, q), q)
                   => ReadAt(mem', last'.obj, q) = ReadAt(mem, last'.obj, q)]_vars

\* a DerivedOwner whose extra was set to -1 earlier: the inherited value
\* has just been assigned 1 and extra still reads -1
C12_Witness ==
    /\ cls = "DerivedOwner" /\ last.op = "assign" /\ last.prop = "value"
    /\ last.arg = 1 /\ last.outcome = "ok"
    /\ Now(last.obj, "value") = 1
    /\ Now(last.obj, "extra") = 0 - 1

----------------------------------------------------------------------------
(* Properties of the value box *)

\* C13: after every sequence of construction, assignment, swap and reset
\* the engaged flag of a box is true exactly when its storage holds a live
\* constructed value.
C13_EngagedIffLive ==
    \A x \in BoxIds : box[x].alive => (box[x].engaged <=> box[x].live)

\* the step is the operation op on a box and it returned normally
Completes(op) == did'.op = op /\ did'.outcome = "ok"

\* C14: destroying a box runs the destructor of the value exactly once when
\* the box is engaged and not at all when it is disengaged; the box is gone
\* afterwards.
C14_DestructorOncePerEngaged ==
    [][Completes("destroy")
          => /\ did'.dtors = (IF box[did'.x].engaged THEN 1 ELSE 0)
             /\ box'[did'.x] = NoBox
             /\ \A z \in BoxIds \ {did'.x} : box'[z] = box[z]]_vars

\* an engaged box holding 42 went out of scope: one destructor call
C14_Witness ==
    /\ did.op = "destroy" /\ did.outcome = "ok" /\ did.dtors = 1
    /\ ~box[did.x].alive
    /\ box[IF did.x = "a" THEN "b" ELSE "a"] = FullBox(42)

\* C15: a default-constructed box is disengaged and its construction runs
\* no destructor; a value assignment that returns leaves the box engaged
\* (its bool conversion is true) holding that value; reset() leaves it
\* disengaged, and runs the destructor exactly once if the box was engaged
\* and not at all if it was disengaged.
C15_EngageThenReset ==
    /\ \A x \in BoxIds : box[x].alive /\ ~box[x].engaged /\ did.dtors = 0
    /\ [][/\ Completes("default")
               => ~box'[did'.x].engaged /\ did'.dtors = 0
                     /\ attr_bool(box', did'.x).ret = Value(0)
          /\ Completes("assign_value")
               => /\ box'[did'.x].engaged /\ box'[did'.x].val = did'.arg
                  /\ attr_bool(box', did'.x).ret = Value(1)
                  /\ did'.dtors = 0
          /\ Completes("reset")
               => /\ ~box'[did'.x].engaged
                  /\ attr_bool(box', did'.x).ret = Value(0)
                  /\ did'.dtors = (IF box[did'.x].engaged THEN 1 ELSE 0)]_vars

\* a box that a value assignment had engaged has been reset: it is
\* disengaged and the destructor ran once
C15_Witness ==
    /\ did.op = "reset" /\ did.outcome = "ok" /\ did.dtors = 1
    /\ box[did.x].alive /\ ~box[did.x].engaged /\ ~box[did.x].live
    /\ box[did.x].val \in AttrValues

\* C16: reset() is idempotent: on a disengaged box it changes nothing and
\* runs no destructor, and a reset() directly after a reset() of the same
\* box leaves the boxes as the first one left them and runs no destructor.
C16_ResetIdempotent ==
    /\ [][Completes("reset")
             => /\ ~box[did'.x].engaged => box' = box /\ did'.dtors = 0
                /\ (did.op = "reset" /\ did.x = did'.x /\ did.outcome = "ok")
                      => box' = box /\ did'.dtors = 0]_vars
    /\ [](\A x \in BoxIds :
             box[x].alive
                => /\ attr_reset(attr_reset(box, x).box, x).box = attr_reset(box, x).box
                   /\ attr_reset(attr_reset(box, x).box, x).dtors = 0)

\* reset() on a box that is disengaged although it once held 42, with the
\* other box engaged: nothing ran
C16_Witness ==
    /\ did.op = "reset" /\ did.outcome = "ok" /\ did.dtors = 0
    /\ box[did.x] = [EmptyBox EXCEPT !.val = 42]
    /\ \E z \in BoxIds : box[z].engaged

\* C17: swap exchanges the state of two boxes exactly, in all four
\* combinations of engagement: afterwards each box is engaged exactly if the
\* other was and holds the value the other held.
C17_SwapExchanges ==
    [][did'.op = "swap"
          => /\ did'.outcome = "ok"
             /\ box'[did'.x].engaged = box[did'.y].engaged
             /\ box'[did'.y].engaged = box[did'.x].engaged
             /\ box[did'.y].engaged => box'[did'.x].val = box[did'.y].val
             /\ box[did'.x].engaged => box'[did'.y].val = box[did'.x].val]_vars

\* C18: reading the value of a disengaged box through a conversion to T
\* returns no value: it raises bad_attr_access and leaves every box as it
\* was, the box read still disengaged.
C18_DisengagedReadRaises ==
    [][(did'.op = "conv" /\ ~box[did'.x].engaged)
          => /\ did'.outcome = "throw"
             /\ did'.err = "bad_attr_access"
             /\ did'.ret = Void
             /\ box' = box
             /\ ~box'[did'.x].engaged]_vars

\* a read of a disengaged box was answered by bad_attr_access
C18_Witness ==
    /\ did.op = "conv" /\ did.outcome = "throw" /\ did.err = "bad_attr_access"
    /\ did.ret = Void
    /\ box[did.x].alive /\ ~box[did.x].engaged

\* C19: copy construction attr x(y) and copy assignment x = y that return
\* propagate engagement and value: afterwards x is engaged exactly if y was,
\* x holds y's value when engaged, and y is as it was, whatever the
\* engagement of x and y before.
C19_CopyPropagates ==
    [][(Completes("copy") \/ Completes("assign_copy"))
          => /\ box'[did'.x].alive
             /\ box'[did'.x].engaged = box[did'.y].engaged
             /\ box[did'.y].engaged => box'[did'.x].val = box[did'.y].val
             /\ box'[did'.y].engaged = box[did'.y].engaged
             /\ box'[did'.y].val = box[did'.y].val
             /\ did'.x # did'.y => box'[did'.y] = box[did'.y]]_vars

\* x = y between two boxes has returned and both hold 42, constructed
C19_Witness ==
    /\ did.op = "assign_copy" /\ did.outcome = "ok" /\ did.x # did.y
    /\ box[did.x] = FullBox(42)
    /\ box[did.y] = FullBox(42)

\* the step is an operation on boxes that exist before and after it
OnLiveBoxes ==
    did' # did /\ did'.op \notin {"none", "default", "from_value", "copy", "move", "destroy"}

\* box z goes from disengaged to engaged / from engaged to disengaged
Engages(z) == ~box[z].engaged /\ box'[z].engaged

Disengages(z) == box[z].engaged /\ ~box'[z].engaged

\* the step is op with z as its left operand and a right operand whose
\* engagement was e, or a swap between z and a box whose engagement was e
FromOther(z, e) ==
    \/ did'.op \in {"assign_copy", "assign_move"} /\ did'.x = z /\ box[did'.y].engaged = e
    \/ did'.op = "swap" /\ did'.x = z /\ box[did'.y].engaged = e
    \/ did'.op = "swap" /\ did'.y = z /\ box[did'.x].engaged = e

\* C20: the only engagement transitions of a box are: disengaged to engaged
\* by a value assignment to it, a copy or move assignment to it from an
\* engaged box, or a swap with an engaged box; engaged to disengaged by its
\* reset(), a copy or move assignment to it from a disengaged box, or a swap
\* with a disengaged box.  The boolean test, the comparison, the value read
\* and an assignment between boxes of equal engagement leave the engagement
\* of every box unchanged.
C20_EngagementTransitions ==
    [][OnLiveBoxes
          => /\ \A z \in BoxIds :
                  /\ Engages(z)
                       => (did'.op = "assign_value" /\ did'.x = z) \/ FromOther(z, TRUE)
                  /\ Disengages(z)
                       => (did'.op = "reset" /\ did'.x = z) \/ FromOther(z, FALSE)
             /\ (\/ did'.op \in {"bool", "eq", "cmp", "conv"}
                 \/ /\ did'.op \in {"assign_copy", "assign_move"}
                    /\ box[did'.x].engaged = box[did'.y].engaged)
                  => \A z \in BoxIds : box'[z].engaged = box[z].engaged]_vars

\* x = y with y disengaged has disengaged an x that held a value: its
\* destructor ran, both boxes are disengaged
C20_Witness ==
    /\ did.op = "assign_copy" /\ did.outcome = "ok" /\ did.dtors = 1
    /\ did.x # did.y
    /\ box[did.x].alive /\ ~box[did.x].engaged
    /\ box[did.y].alive /\ ~box[did.y].engaged

\* C21: a copy or move assignment between boxes that returns constructs a
\* value in the target exactly when the target goes from disengaged to
\* engaged, runs a destructor exactly when the target goes from engaged to
\* disengaged (once), and does neither when both boxes have the same
\* engagement; and in every state the number of live values equals the
\* number of engaged boxes.
C21_ConstructOnlyOnTransition ==
    /\ [][((did'.op = "assign_copy" \/ did'.op = "assign_move") /\ did'.outcome = "ok")
             => /\ (~box[did'.x].live /\ box'[did'.x].live) <=> Engages(did'.x)
                /\ did'.dtors = (IF Disengages(did'.x) THEN 1 ELSE 0)
                /\ box[did'.x].engaged = box[did'.y].engaged
                      => box'[did'.x].live = box[did'.x].live /\ did'.dtors = 0]_vars
    /\ [](Cardinality({x \in BoxIds : box[x].live})
             = Cardinality({x \in BoxIds : box[x].alive /\ box[x].engaged}))

----------------------------------------------------------------------------
(* The proxy as a pass-through *)

\* the read-write properties of the owner class of the run
ReadWriteProps == {p \in PropsOf(cls) : Access(DeclClass(cls, p), p) = "RW"}

\* the step is the operation op on obj[i].p and it ran
MemberRan(op) == MemberStep /\ last'.op = op

\* what the getter of the property of the step returns on its owner before
GetterBefore == CallGetter(DeclClass(cls, last'.prop), last'.prop, mem, objs[last'.obj])

\* C22: prop = v and prop.set(v) are equivalent pass-throughs: each makes
\* one call of the owner's setter with exactly v and no getter call, and
\* leaves the memory that call leaves; in every state and for every v both
\* make the same calls, leave the same memory and end the same way.
C22_WritePassThrough ==
    /\ [][(MemberRan("assign") \/ MemberRan("set"))
             => /\ last'.calls = <<SetCall(objs[last'.obj], last'.arg)>>
                /\ mem' = CallSetter(DeclClass(cls, last'.prop), last'.prop, mem,
                                     objs[last'.obj], last'.arg).mem]_vars
    /\ [](\A i \in DOMAIN objs, p \in ReadWriteProps :
             \A v \in ValuesOf(TypeOf(DeclClass(cls, p), p)) :
                /\ PropertyBase_assign(DeclClass(cls, p), p, mem, ProxyAddr(cls, objs[i], p), v).calls
                     = PropertyBase_set(DeclClass(cls, p), p, mem, ProxyAddr(cls, objs[i], p), v).calls
                /\ PropertyBase_assign(DeclClass(cls, p), p, mem, ProxyAddr(cls, objs[i], p), v).mem
                     = PropertyBase_set(DeclClass(cls, p), p, mem, ProxyAddr(cls, objs[i], p), v).mem
                /\ PropertyBase_assign(DeclClass(cls, p), p, mem, ProxyAddr(cls, objs[i], p), v).err
                     = PropertyBase_set(DeclClass(cls, p), p, mem, ProxyAddr(cls, objs[i], p), v).err)

\* value.set(200) on a ValidatedOwner: the setter was called once with 200
\* itself, and it is the setter that stored 100
C22_Witness ==
    /\ cls = "ValidatedOwner" /\ last.op = "set" /\ last.arg = 200 /\ last.outcome = "ok"
    /\ last.calls = <<SetCall(objs[1], 200)>>
    /\ Now(1, "value") = ClampHi

\* C23: the conversion to T, get() and get_value() each make one getter
\* call on the owner and no setter call, return what that call returned and
\* leave memory as it was; in every state the three return the same value.
C23_ReadsAgree ==
    /\ [][(MemberRan("conv") \/ MemberRan("get") \/ MemberRan("get_value"))
             => /\ last'.calls = <<GetCall(objs[last'.obj], GetterBefore)>>
                /\ last'.ret = Value(GetterBefore)
                /\ mem' = mem]_vars
    /\ [](\A i \in DOMAIN objs, p \in ReadWriteProps :
             /\ PropertyBase_conv(DeclClass(cls, p), p, mem, ProxyAddr(cls, objs[i], p)).ret
                  = PropertyBase_get(DeclClass(cls, p), p, mem, ProxyAddr(cls, objs[i], p)).ret
             /\ PropertyBase_get(DeclClass(cls, p), p, mem, ProxyAddr(cls, objs[i], p)).ret
                  = PropertyBase_get_value(DeclClass(cls, p), p, mem, ProxyAddr(cls, objs[i], p)).ret)

\* get_value() of the own property of a DerivedOwner returned the -1
\* stored there, by one getter call
C23_Witness ==
    /\ cls = "DerivedOwner" /\ last.op = "get_value" /\ last.prop = "extra"
    /\ last.outcome = "ok"
    /\ last.calls = <<GetCall(objs[1], 0 - 1)>>
    /\ last.ret = Value(0 - 1)

\* C24: prop == v returns whether the getter's value equals v and
\* prop <=> v the ordering of the getter's value against v; either makes
\* one getter call and no setter call and leaves memory as it was; in every
\* state and for every v, prop <=> v is equal exactly if prop == v.
C24_ComparisonDelegates ==
    /\ [][/\ MemberRan("eq")
               => /\ last'.ret = Value(GetterBefore = last'.arg)
                  /\ last'.calls = <<GetCall(objs[last'.obj], GetterBefore)>>
                  /\ mem' = mem
          /\ MemberRan("cmp")
               => /\ last'.ret = Value(Order(TypeOf(DeclClass(cls, last'.prop), last'.prop),
                                             GetterBefore, last'.arg))
                  /\ last'.calls = <<GetCall(objs[last'.obj], GetterBefore)>>
                  /\ mem' = mem]_vars
    /\ [](\A i \in DOMAIN objs, p \in ReadWriteProps :
             \A v \in ValuesOf(TypeOf(DeclClass(cls, p), p)) :
                (PropertyBase_cmp(DeclClass(cls, p), p, mem, ProxyAddr(cls, objs[i], p), v).ret.v = 0)
                   <=> PropertyBase_eq(DeclClass(cls, p), p, mem, ProxyAddr(cls, objs[i], p), v).ret.v)

\* value <=> 95 on a ValidatedOwner holding 100 is greater
C24_Witness ==
    /\ cls = "ValidatedOwner" /\ last.op = "cmp" /\ last.arg = 95 /\ last.outcome = "ok"
    /\ last.calls = <<GetCall(objs[1], ClampHi)>>
    /\ last.ret = Value(1)

\* C25: a subscript on a property reads by value: obj.p[k] with k a valid
\* index of the container calls the getter once and returns the element
\* getter()[k] as a value, not as a reference into the owner; no setter
\* runs, no word of memory changes and the caller is left holding no
\* reference, so nothing it does to the element reaches the container.
C25_SubscriptByValue ==
    [][(MemberRan("subscript") /\ last'.arg < Len(GetterBefore))
          => /\ last'.outcome = "ok"
             /\ last'.ret = Value(GetterBefore[last'.arg + 1])
             /\ last'.calls = <<GetCall(objs[last'.obj], GetterBefore)>>
             /\ mem' = mem
             /\ ref' = ref]_vars

\* data[2] of a VectorOwner holding {1, 2, 3} is 3
C25_Witness ==
    /\ cls = "VectorOwner" /\ last.op = "subscript" /\ last.arg = 2 /\ last.outcome = "ok"
    /\ last.calls = <<GetCall(objs[1], <<1, 2, 3>>)>>
    /\ last.ret = Value(3)
    /\ Now(1, "data") = <<1, 2, 3>>

----------------------------------------------------------------------------
(* Comparisons and moves of the box *)

\* C26: comparing a box with a raw value terminates with the value
\* comparison: box == v returns true exactly if the box is engaged and
\* holds v, and box <=> v returns the ordering of the held value and v, or
\* less if the box is disengaged.
C26_ValueComparisonTerminates ==
    [][/\ did'.op = "eq_value"
            => /\ did'.outcome = "ok"
               /\ did'.ret = Value(IF box[did'.x].engaged /\ box[did'.x].val = did'.arg
                                   THEN 1 ELSE 0)
       /\ did'.op = "cmp_value"
            => /\ did'.outcome = "ok"
               /\ did'.ret = Value(IF box[did'.x].engaged
                                   THEN ThreeWay(box[did'.x].val, did'.arg) ELSE 0 - 1)]_vars

\* the ordering of a box with flag ex and value vx against a box with flag
\* ey and value vy
BoxOrder(ex, vx, ey, vy) ==
    CASE ~ex /\ ~ey -> 0
      [] ~ex /\ ey  -> 0 - 1
      [] ex /\ ~ey  -> 1
      [] OTHER      -> ThreeWay(vx, vy)

\* C27: two boxes are ordered by engagement first: two disengaged boxes are
\* equal, a disengaged box is less than an engaged one, two engaged boxes
\* compare as their values; a <=> b is equal exactly when a == b is true;
\* a comparison raises no exception and changes no box.
C27_BoxOrdering ==
    /\ [][(did'.op = "cmp" \/ did'.op = "eq")
             => /\ did'.err = "none"
                /\ did'.outcome # "throw"
                /\ box' = box
                /\ Completes("cmp")
                     => did'.ret = Value(BoxOrder(box[did'.x].engaged, box[did'.x].val,
                                                  box[did'.y].engaged, box[did'.y].val))
                /\ Completes("eq")
                     => did'.ret = Value(IF BoxOrder(box[did'.x].engaged, box[did'.x].val,
                                                     box[did'.y].engaged, box[did'.y].val) = 0
                                         THEN 1 ELSE 0)]_vars
    /\ [](\A x \in BoxIds, y \in BoxIds :
             (box[x].alive /\ box[y].alive)
                => ((attr_cmp(box, x, y).ret.v = 0) <=> (attr_eq(box, x, y).ret.v = 1)))

\* a disengaged box compared with a box holding 42: less
C27_Witness ==
    /\ did.op = "cmp" /\ did.outcome = "ok" /\ did.ret = Value(0 - 1)
    /\ box[did.x].alive /\ ~box[did.x].engaged
    /\ box[did.y] = FullBox(42)

\* C28: when the construction of the value fails during a value assignment
\* to a disengaged box, the box is left disengaged, so that a later reset()
\* or the destruction of the box runs no destructor.
C28_FailedAssignLeavesDisengaged ==
    [][(did'.op = "assign_value" /\ ~box[did'.x].engaged /\ did'.outcome = "throw")
          => /\ ~box'[did'.x].engaged
             /\ attr_reset(box', did'.x).dtors = 0
             /\ attr_storage_dtor(box', did'.x).dtors = 0]_vars

\* C29: move construction attr x(std::move(y)) and move assignment
\* x = std::move(y) leave the engagement of the source y as it was: an
\* engaged source stays engaged with its moved-from value still constructed,
\* so the destruction of the source runs that value's destructor once; a
\* disengaged source stays disengaged.
C29_MoveKeepsSourceEngagement ==
    [][(Completes("move") \/ Completes("assign_move"))
          => /\ box'[did'.y].engaged = box[did'.y].engaged
             /\ box'[did'.y].live = box[did'.y].live
             /\ attr_storage_dtor(box', did'.y).dtors = (IF box[did'.y].engaged THEN 1 ELSE 0)
             /\ did'.x # did'.y => box'[did'.y] = box[did'.y]]_vars

\* a box was move-constructed from a box holding 42: both are engaged and
\* both hold a constructed value
C29_Witness ==
    /\ did.op = "move" /\ did.outcome = "ok" /\ did.x # did.y
    /\ box[did.x] = FullBox(42)
    /\ box[did.y] = FullBox(42)

\* C30: swap is an involution and symmetric: a.swap(b) completes, a second
\* a.swap(b) restores both boxes, b.swap(a) leaves what a.swap(b) leaves;
\* a swap between boxes of different engagement runs exactly one destructor
\* and a swap between boxes of equal engagement runs none.
C30_SwapInvolution ==
    [][did'.op = "swap"
          => /\ did'.outcome = "ok"
             /\ did'.dtors = (IF box[did'.x].engaged # box[did'.y].engaged THEN 1 ELSE 0)
             /\ attr_swap(box', did'.x, did'.y).outcome = "ok"
             /\ attr_swap(box', did'.x, did'.y).box = box
             /\ attr_swap(box, did'.y, did'.x).box = box']_vars

====
